---- MODULE Spec2Model ----
(***************************************************************************)
(* A model of the audio stream detection core of audio-capture:            *)
(*   audio_detect/detectors.py  the three state detection strategies and   *)
(*                              the Chrome DevTools client                 *)
(*   audio_detect/core.py       the pactl / wpctl parsers and the merge    *)
(* Texts (tool output, volumes) are sequences of one-character strings, so *)
(* that Python's str operations are computed as the code computes them.    *)
(***************************************************************************)
EXTENDS Integers, Sequences, FiniteSets, TLC

(***************************************************************************)
(* Bounds of the model.                                                    *)
(***************************************************************************)
MaxTabs == 2        \* entries in one DevTools /json answer
MaxTasks == 4       \* asyncio tasks alive at once in the event loop
MaxAggTabs == 3     \* tabs held by a client whose aggregate state is asked
MaxTime == 8        \* the clock stops here
MaxRecords == 3     \* sink inputs in one `pactl list sink-inputs` answer
MaxRouting == 2     \* records in one routing-graph answer
MaxElems == 3       \* audio/video elements of one page
MaxLines == 5       \* lines of one routing-graph dump
MaxSamples == 4     \* samples added to one AudioBuffer
MaxData == 2        \* samples of one add_audio_data call
MaxClock == 6       \* the last second of the AudioBuffer's time
NumConsumers == 2   \* threads that call get_next_chunk
MaxPollTime == 7    \* the last second the TeamsRecorder loop polls at
MaxSinks == 2       \* sinks of the sound server before the first call

VARIABLES
    chrome_connected,   \* BrowserStateDetector._chrome_connected
    tabs,               \* BrowserStateDetector._tabs : Seq(ChromeTab)
    batches,            \* the event loop's _async_query_all gathers
    call,               \* the list_tabs / get_stream_state call in progress
    endpoint,           \* environment: the DevTools HTTP endpoint
    stream,             \* one AudioStream, refreshed by the local strategy
    now,                \* environment: time.time(), in seconds
    lret,               \* what the local strategy's get_stream_state returned
    pactl_out,          \* environment: `pactl list sink-inputs` (exit, stdout)
    sinks_out,          \* environment: `pactl list sinks` (exit, stdout)
    wpctl_out,          \* environment: `wpctl status` (exit, stdout)
    wpctl_streams,      \* the records list_streams_wpctl returned
    pactl_streams,      \* the records list_sink_inputs_pactl returned
    merged,             \* the AudioStreams merge_stream_data returned
    mpc,                \* where one poll of list_audio_streams stands
    detector_type,      \* the argument of list_audio_streams
    refreshed,          \* the streams the poll has called update_state on
    hybrid,             \* the HybridStateDetector.get_stream_state call
    server_sinks,       \* environment: the names of the sound server's sinks
    cvs,                \* the last create_virtual_sink call (name, result)
    accumulation_buffer, \* AudioBuffer.accumulation_buffer
    audio_buffer,       \* AudioBuffer.audio_buffer
    timestamp_buffer,   \* AudioBuffer.timestamp_buffer
    processed_buffer,   \* AudioBuffer.processed_buffer
    last_process_time,  \* AudioBuffer.last_process_time
    buffer_time,        \* environment: time.time() as the AudioBuffer reads it
    consumers,          \* the get_next_chunk call of each consumer thread
    next_sample,        \* the number of the next sample to be added
    first_sample,       \* history: the first sample added since __init__ or clear
    made,               \* history: the (chunk, timestamp) pairs made since
                        \* __init__ or clear
    handed,             \* history: the chunks handed out since __init__ or clear
    recording_process,  \* TeamsRecorder.recording_process, 0 for None
    is_recording,       \* TeamsRecorder.is_recording
    last_teams_seen,    \* TeamsRecorder.last_teams_seen, 0 for None
    rec_time,           \* environment: time.time() as the loop last read it
    rpc,                \* where TeamsRecorder.run stands
    live,               \* environment: the ffmpeg processes that run
    spawned,            \* the ffmpeg processes started so far
    last_poll,          \* history: what the last poll found, and when
    last_detected       \* history: the time of the last poll that detected

bvars == <<chrome_connected, tabs, batches, call, endpoint>>
lvars == <<stream, now, lret>>
mvars == <<pactl_out, sinks_out, wpctl_out, wpctl_streams, pactl_streams, merged,
           mpc, detector_type, refreshed>>
hvars == <<hybrid>>
svars == <<server_sinks, cvs>>
avars == <<accumulation_buffer, audio_buffer, timestamp_buffer, processed_buffer,
           last_process_time, buffer_time, consumers, next_sample, first_sample,
           made, handed>>
rvars == <<recording_process, is_recording, last_teams_seen, rec_time, rpc,
           live, spawned, last_poll, last_detected>>
xvars == <<svars, avars, rvars>>

\* What the actions of one component leave alone.
nonBrowser == <<lvars, mvars, hvars, xvars>>
nonLocal == <<bvars, mvars, hvars, xvars>>
nonMerge == <<bvars, lvars, hvars, xvars>>
nonSinks == <<bvars, lvars, mvars, hvars, avars, rvars>>
nonBuffer == <<bvars, lvars, mvars, hvars, svars, rvars>>
nonRecorder == <<bvars, lvars, mvars, hvars, svars, avars>>

(***************************************************************************)
(* Generic helpers.                                                        *)
(***************************************************************************)
Range(s) == {s[i] : i \in DOMAIN s}

SeqsUpTo(S, n) == UNION {[1..k -> S] : k \in 0..n}

(***************************************************************************)
(* Texts, and Python's str operations on them.                             *)
(***************************************************************************)
Vol0 == <<"0", "%">>
Vol55 == <<"5", "5", "%">>

\* s.startswith(p)
StartsWith(s, p) == Len(s) >= Len(p) /\ SubSeq(s, 1, Len(p)) = p

\* sub in s
Contains(s, sub) ==
    \E i \in 1..(Len(s) - Len(sub) + 1) : SubSeq(s, i, i + Len(sub) - 1) = sub

\* s.split(sep), for a separator that is not empty
RECURSIVE Split(_, _)
Split(s, sep) ==
    LET hits == {i \in 1..(Len(s) - Len(sep) + 1) :
                    SubSeq(s, i, i + Len(sep) - 1) = sep}
    IN  IF hits = {} THEN <<s>>
        ELSE LET i == CHOOSE h \in hits : \A g \in hits : h <= g
             IN  <<SubSeq(s, 1, i - 1)>>
                     \o Split(SubSeq(s, i + Len(sep), Len(s)), sep)

Whitespace == {" ", "\t"}

\* s.strip()
RECURSIVE Strip(_)
Strip(s) ==
    IF s = <<>> THEN s
    ELSE IF s[1] \in Whitespace THEN Strip(Tail(s))
    ELSE IF s[Len(s)] \in Whitespace THEN Strip(SubSeq(s, 1, Len(s) - 1))
    ELSE s

IsDigit(c) == c \in {"0", "1", "2", "3", "4", "5", "6", "7", "8", "9"}

DigitValue(c) ==
    CASE c = "0" -> 0 [] c = "1" -> 1 [] c = "2" -> 2 [] c = "3" -> 3
      [] c = "4" -> 4 [] c = "5" -> 5 [] c = "6" -> 6 [] c = "7" -> 7
      [] c = "8" -> 8 [] c = "9" -> 9

\* int(s) for a string of decimal digits.
RECURSIVE ParseInt(_)
ParseInt(s) ==
    IF s = <<>> THEN 0
    ELSE 10 * ParseInt(SubSeq(s, 1, Len(s) - 1)) + DigitValue(s[Len(s)])

\* int(s) raises ValueError unless s is a decimal number.
IsInt(s) == s # <<>> /\ \A i \in DOMAIN s : IsDigit(s[i])

\* str(n) for n >= 0
RECURSIVE IntText(_)
IntText(n) ==
    LET d == <<"0", "1", "2", "3", "4", "5", "6", "7", "8", "9">>[(n % 10) + 1]
    IN  IF n < 10 THEN <<d>> ELSE IntText(n \div 10) \o <<d>>

(***************************************************************************)
(* Python dicts: functions from keys to values.                            *)
(***************************************************************************)
EmptyDict == [k \in {} |-> 0]

Put(d, key, value) ==
    [k \in DOMAIN d \cup {key} |-> IF k = key THEN value ELSE d[k]]

\* d.get(key, default)
Get(d, key, default) == IF key \in DOMAIN d THEN d[key] ELSE default

(***************************************************************************)
(* ChromeTab and the media elements the injected script reports.           *)
(***************************************************************************)
MediaElement == [paused : BOOLEAN, muted : BOOLEAN]

\* The pages a tab can show when it is asked: no element, an element
\* playing aloud, one playing muted, one paused.
PageContents ==
    {<<>>,
     <<[paused |-> FALSE, muted |-> FALSE]>>,
     <<[paused |-> FALSE, muted |-> TRUE]>>,
     <<[paused |-> TRUE, muted |-> FALSE]>>}

\* ChromeTab(...) as _connect_to_chrome constructs it: the dataclass defaults.
ChromeTab(entry) ==
    [tab_type |-> entry.type,
     ws_url |-> entry.webSocketDebuggerUrl,
     has_audio |-> FALSE,
     audio_state |-> "unknown",
     media_elements |-> <<>>]

\* One descriptor of the /json answer: a page or another target, with a
\* websocket URL or none. What a URL does when it is used is a fact about
\* the URL: it answers the evaluation, it refuses the connection, or it
\* accepts the connection and never sends a usable reply.
TabEntries ==
    {[type |-> "page", webSocketDebuggerUrl |-> "ws://ok"],
     [type |-> "page", webSocketDebuggerUrl |-> "ws://refused"],
     [type |-> "page", webSocketDebuggerUrl |-> "ws://silent"],
     [type |-> "page", webSocketDebuggerUrl |-> ""],
     [type |-> "service_worker", webSocketDebuggerUrl |-> "ws://ok"]}

\* A derivation that asks whether the playing elements are muted, not
\* whether all elements are.
DeriveAudioOfPlaying(elements) ==
    IF elements = <<>>
    THEN [has_audio |-> FALSE, audio_state |-> "silent"]
    ELSE LET playing == SelectSeq(elements, LAMBDA e : ~e.paused)
             muted == \A i \in DOMAIN playing : playing[i].muted
         IN  IF playing # <<>> /\ ~muted
             THEN [has_audio |-> TRUE, audio_state |-> "playing"]
             ELSE IF playing # <<>> /\ muted
                  THEN [has_audio |-> TRUE, audio_state |-> "muted"]
                  ELSE [has_audio |-> FALSE, audio_state |-> "paused"]

\* The aggregate audio state of a tab, from its element snapshots.
DeriveAudio(elements) ==
    IF elements = <<>>
    THEN [has_audio |-> FALSE, audio_state |-> "silent"]
    ELSE LET playing == SelectSeq(elements, LAMBDA e : ~e.paused)
             muted == \A i \in DOMAIN elements : elements[i].muted
         IN  IF playing # <<>> /\ ~muted
             THEN [has_audio |-> TRUE, audio_state |-> "playing"]
             ELSE IF playing # <<>> /\ muted
                  THEN [has_audio |-> TRUE, audio_state |-> "muted"]
                  ELSE [has_audio |-> FALSE, audio_state |-> "paused"]

(***************************************************************************)
(* BrowserStateDetector: stream-level helpers.                             *)
(***************************************************************************)
\* An aggregate that looks for a muted tab before a playing one.
GetTabAudioStateMutedFirst(ts) ==
    IF ts = <<>> THEN "unknown"
    ELSE IF \E i \in DOMAIN ts :
                ts[i].tab_type = "page" /\ ts[i].audio_state = "muted"
         THEN "muted"
    ELSE IF \E i \in DOMAIN ts :
                ts[i].tab_type = "page" /\ ts[i].audio_state = "playing"
         THEN "playing"
    ELSE IF \E i \in DOMAIN ts :
                ts[i].tab_type = "page" /\ ts[i].audio_state = "paused"
         THEN "paused"
    ELSE "unknown"

\* _get_tab_audio_state: the best state across all page tabs.
GetTabAudioState(ts) ==
    IF ts = <<>> THEN "unknown"
    ELSE IF \E i \in DOMAIN ts :
                ts[i].tab_type = "page" /\ ts[i].audio_state = "playing"
         THEN "playing"
    ELSE IF \E i \in DOMAIN ts :
                ts[i].tab_type = "page" /\ ts[i].audio_state = "muted"
         THEN "muted"
    ELSE IF \E i \in DOMAIN ts :
                ts[i].tab_type = "page" /\ ts[i].audio_state = "paused"
         THEN "paused"
    ELSE "unknown"

\* A mapping that passes the states it does not know on as 'UNKNOWN'.
StateMappingUnknown(browser_state) ==
    CASE browser_state = "playing" -> "RUNNING"
      [] browser_state = "paused" -> "CORKED"
      [] browser_state = "muted" -> "MUTED"
      [] browser_state = "silent" -> "IDLE"
      [] OTHER -> "UNKNOWN"

\* state_mapping.get(browser_state.lower(), 'IDLE')
StateMapping(browser_state) ==
    CASE browser_state = "playing" -> "RUNNING"
      [] browser_state = "paused" -> "CORKED"
      [] browser_state = "muted" -> "MUTED"
      [] browser_state = "silent" -> "IDLE"
      [] browser_state = "unknown" -> "IDLE"
      [] browser_state = "error" -> "IDLE"
      [] OTHER -> "IDLE"

\* get_stream_state's answer when _connect_to_chrome returned False.
BasicDetection(volume) == IF volume # Vol0 THEN "RUNNING" ELSE "IDLE"

\* [t for t in self._tabs if t.tab_type == "page"], as the states the
\* caller sees in the returned tabs at the moment list_tabs returns.
PageTabStates(ts) ==
    LET pages == SelectSeq(ts, LAMBDA t : t.tab_type = "page")
    IN  [i \in DOMAIN pages |-> pages[i].audio_state]

(***************************************************************************)
(* _async_query_all: one task per page tab that has a websocket URL.       *)
(* q[i] is the position of tab i's _async_query_tab coroutine.             *)
(***************************************************************************)
Finished == {"none", "done", "failed"}

NewBatch(ts, sync) ==
    [sync |-> sync,
     q |-> [i \in DOMAIN ts |->
              IF ts[i].tab_type = "page" /\ ts[i].ws_url # ""
              THEN "connect" ELSE "none"]]

BatchDone(b) == \A i \in DOMAIN b.q : b.q[i] \in Finished

\* The tasks a batch keeps in the event loop: the gather's own and one per
\* queried tab.
BatchTasks(b) == 1 + Cardinality({i \in DOMAIN b.q : b.q[i] # "none"})

RECURSIVE LoopTasks(_)
LoopTasks(bs) ==
    IF bs = <<>> THEN 0 ELSE BatchTasks(Head(bs)) + LoopTasks(Tail(bs))

\* The call in progress or last made: its arguments, what its connection
\* check did (discovery), what the DevTools endpoint was throughout it
\* (env) and what it returned.
NoCall ==
    [op |-> "none", pc |-> "idle", with_audio_state |-> FALSE, volume |-> Vol0,
     discovery |-> "none", env |-> "up", ret |-> "none"]

Volumes == {Vol0, Vol55}

\* The calls a client of the detector can make.
Requests ==
    {[op |-> "list_tabs", with_audio_state |-> w, volume |-> Vol0] : w \in BOOLEAN}
    \cup
    {[op |-> "get_stream_state", with_audio_state |-> TRUE, volume |-> v] :
        v \in Volumes}

NeedsQuery(r) == r.op = "get_stream_state" \/ r.with_audio_state

Removed(s, k) == [i \in 1..(Len(s) - 1) |-> IF i < k THEN s[i] ELSE s[i + 1]]

(***************************************************************************)
(* _connect_to_chrome.                                                     *)
(***************************************************************************)
\* The JSON arrays of tab descriptors the endpoint can answer with.
Answers == SeqsUpTo(TabEntries, MaxTabs)

\* The tab list a call works on once it is past the connection check:
\* the kept list when already connected, a freshly built one otherwise.
ConnectOutcomes ==
    IF chrome_connected
    THEN {tabs}
    ELSE IF endpoint = "up"
         THEN {[i \in DOMAIN d |-> ChromeTab(d[i])] : d \in Answers}
         ELSE {}

Started(r, disc) ==
    [op |-> r.op, pc |-> "waiting", with_audio_state |-> r.with_audio_state,
     volume |-> r.volume, discovery |-> disc,
     env |-> endpoint, ret |-> "none"]

\* The value a call that got past the connection check returns, computed
\* from the tabs as they are when it returns.
Answer(c, ts) ==
    IF c.op = "list_tabs"
    THEN [c EXCEPT !.pc = "returned", !.ret = "tabs"]
    ELSE [c EXCEPT !.pc = "returned",
                   !.ret = StateMapping(GetTabAudioState(ts))]

\* urlopen raises (endpoint unreachable) or json.loads raises (the body
\* is not JSON): the except branch of _connect_to_chrome.
CallDiscoveryFails(r) ==
    /\ call.pc # "waiting"
    /\ ~chrome_connected
    /\ chrome_connected' = FALSE
    /\ call' = [Started(r, IF endpoint = "down" THEN "unreachable" ELSE "invalid")
                 EXCEPT
                   !.pc = "returned",
                   !.ret = IF r.op = "list_tabs" THEN "empty"
                           ELSE BasicDetection(r.volume)]
    /\ UNCHANGED <<tabs, batches, endpoint>>
    /\ UNCHANGED nonBrowser

\* The body is JSON but no array of objects: self._tabs = [] has run when
\* iterating it, or entry.get, raises outside the try block.
CallDiscoveryMalformed(r) ==
    /\ call.pc # "waiting"
    /\ ~chrome_connected
    /\ endpoint = "up"
    /\ tabs' = <<>>
    /\ call' = [Started(r, "malformed") EXCEPT !.pc = "raised", !.ret = "raised"]
    /\ UNCHANGED <<chrome_connected, batches, endpoint>>
    /\ UNCHANGED nonBrowser

\* list_tabs(with_audio_state=False): no query.
CallNoQuery(r) ==
    /\ call.pc # "waiting"
    /\ ~NeedsQuery(r)
    /\ \E o \in ConnectOutcomes :
          /\ tabs' = o
          /\ call' = Answer(Started(r, IF chrome_connected THEN "skipped" ELSE "ok"),
                            o)
    /\ chrome_connected' = TRUE
    /\ UNCHANGED <<batches, endpoint>>
    /\ UNCHANGED nonBrowser

\* _query_all_tab_audio with no loop running: run_until_complete blocks
\* the caller until the gather is done.
CallQuerySync(r) ==
    /\ call.pc # "waiting"
    /\ NeedsQuery(r)
    /\ \E o \in ConnectOutcomes :
          /\ LoopTasks(batches) + BatchTasks(NewBatch(o, TRUE)) <= MaxTasks
          /\ tabs' = o
          /\ batches' = Append(batches, NewBatch(o, TRUE))
    /\ call' = Started(r, IF chrome_connected THEN "skipped" ELSE "ok")
    /\ chrome_connected' = TRUE
    /\ UNCHANGED endpoint
    /\ UNCHANGED nonBrowser

\* _query_all_tab_audio inside a running loop: ensure_future schedules
\* the gather and the caller goes on without awaiting it.
CallQueryInLoop(r) ==
    /\ call.pc # "waiting"
    /\ NeedsQuery(r)
    /\ \E o \in ConnectOutcomes :
          /\ LoopTasks(batches) + BatchTasks(NewBatch(o, TRUE)) <= MaxTasks
          /\ tabs' = o
          /\ batches' = Append(batches, NewBatch(o, FALSE))
          /\ call' = Answer(Started(r, IF chrome_connected THEN "skipped" ELSE "ok"),
                            o)
    /\ chrome_connected' = TRUE
    /\ UNCHANGED endpoint
    /\ UNCHANGED nonBrowser

\* run_until_complete returns: the caller's gather is done.
CallSyncReturn ==
    /\ call.pc = "waiting"
    /\ \E k \in DOMAIN batches :
          /\ batches[k].sync
          /\ BatchDone(batches[k])
          /\ batches' = Removed(batches, k)
    /\ call' = Answer(call, tabs)
    /\ UNCHANGED <<chrome_connected, tabs, endpoint>>
    /\ UNCHANGED nonBrowser

\* A scheduled gather that nobody awaits is done.
GatherDone ==
    /\ \E k \in DOMAIN batches :
          /\ ~batches[k].sync
          /\ BatchDone(batches[k])
          /\ batches' = Removed(batches, k)
    /\ UNCHANGED <<chrome_connected, tabs, call, endpoint>>
    /\ UNCHANGED nonBrowser

(***************************************************************************)
(* _async_query_tab: one step per suspension point of the coroutine.       *)
(***************************************************************************)
\* A failure handled the way a task group handles it: the siblings that
\* have not finished are cancelled.
QueryFailCancelsSiblings(k, i) ==
    /\ tabs' = [tabs EXCEPT ![i].audio_state = "error"]
    /\ batches' = [batches EXCEPT ![k].q =
                      [j \in DOMAIN batches[k].q |->
                          IF j = i \/ batches[k].q[j] \notin Finished
                          THEN "failed" ELSE batches[k].q[j]]]

\* The except branch: the failure is logged and recorded on the tab.
QueryFail(k, i) ==
    /\ tabs' = [tabs EXCEPT ![i].audio_state = "error"]
    /\ batches' = [batches EXCEPT ![k].q[i] = "failed"]

\* The code after ws.recv() returned a decodable reply.
QueryRecord(k, i, elements) ==
    /\ tabs' = [tabs EXCEPT ![i].media_elements = elements,
                            ![i].has_audio = DeriveAudio(elements).has_audio,
                            ![i].audio_state = DeriveAudio(elements).audio_state]
    /\ batches' = [batches EXCEPT ![k].q[i] = "done"]

\* The browser is there and tab i's websocket URL accepts connections.
Reachable(i) == endpoint = "up" /\ tabs[i].ws_url # "ws://refused"

\* The tab sends a reply that decodes.
Replies(i) == Reachable(i) /\ tabs[i].ws_url = "ws://ok"

\* async with websockets.connect(tab.ws_url, open_timeout=2, ...)
QueryConnect(k, i) ==
    /\ batches[k].q[i] = "connect"
    /\ \/ /\ Reachable(i)
          /\ batches' = [batches EXCEPT ![k].q[i] = "send"]
          /\ UNCHANGED tabs
       \/ /\ ~Reachable(i)
          /\ QueryFail(k, i)
    /\ UNCHANGED <<chrome_connected, call, endpoint>>
    /\ UNCHANGED nonBrowser

\* The tab takes the data written to its websocket.
TakesData(i) == tabs[i].ws_url # "ws://stalled"

\* await ws.send(msg): no timeout bounds it, it completes when the
\* message is written or the connection breaks.
QuerySend(k, i) ==
    /\ batches[k].q[i] = "send"
    /\ \/ /\ Reachable(i)
          /\ TakesData(i)
          /\ batches' = [batches EXCEPT ![k].q[i] = "recv"]
          /\ UNCHANGED tabs
       \/ /\ ~Reachable(i)
          /\ QueryFail(k, i)
    /\ UNCHANGED <<chrome_connected, call, endpoint>>
    /\ UNCHANGED nonBrowser

\* await asyncio.wait_for(ws.recv(), timeout=3) and the decoding of the
\* reply; leaving the async with block closes the socket and writes
\* nothing more.
QueryRecv(k, i) ==
    /\ batches[k].q[i] = "recv"
    /\ \/ /\ Replies(i)
          /\ \E elements \in PageContents : QueryRecord(k, i, elements)
       \/ /\ ~Replies(i)
          /\ QueryFail(k, i)
    /\ UNCHANGED <<chrome_connected, call, endpoint>>
    /\ UNCHANGED nonBrowser

(***************************************************************************)
(* The environment: the browser comes and goes.                            *)
(***************************************************************************)
EndpointChange ==
    /\ endpoint' = IF endpoint = "up" THEN "down" ELSE "up"
    /\ call' = IF call.pc = "waiting" THEN [call EXCEPT !.env = "changed"] ELSE call
    /\ UNCHANGED <<chrome_connected, tabs, batches>>
    /\ UNCHANGED nonBrowser

(***************************************************************************)
(* The browser strategy as a state machine.                                *)
(***************************************************************************)
BrowserInit ==
    /\ chrome_connected = FALSE
    /\ tabs = <<>>
    /\ batches = <<>>
    /\ call = NoCall
    /\ endpoint \in {"up", "down"}

BrowserNext ==
    \/ \E r \in Requests : CallDiscoveryFails(r)
    \/ \E r \in Requests : CallDiscoveryMalformed(r)
    \/ \E r \in Requests : CallNoQuery(r)
    \/ \E r \in Requests : CallQuerySync(r)
    \/ \E r \in Requests : CallQueryInLoop(r)
    \/ CallSyncReturn
    \/ GatherDone
    \/ \E k \in DOMAIN batches : \E i \in DOMAIN tabs : QueryConnect(k, i)
    \/ \E k \in DOMAIN batches : \E i \in DOMAIN tabs : QuerySend(k, i)
    \/ \E k \in DOMAIN batches : \E i \in DOMAIN tabs : QueryRecv(k, i)
    \/ EndpointChange

(***************************************************************************)
(* A blocking call on a client, with the event loop running every task     *)
(* that can take a step.  A held tab's websocket URL can also be one that  *)
(* accepts the connection and then takes no data.                          *)
(***************************************************************************)
LiveEntries ==
    TabEntries \cup {[type |-> "page", webSocketDebuggerUrl |-> "ws://stalled"]}

LiveInit ==
    /\ chrome_connected \in BOOLEAN
    /\ tabs \in IF chrome_connected
                THEN {[i \in DOMAIN d |-> ChromeTab(d[i])] :
                         d \in SeqsUpTo(LiveEntries, MaxTabs)}
                ELSE {<<>>}
    /\ batches = <<>>
    /\ call = NoCall
    /\ endpoint \in {"up", "down"}

LiveNext ==
    \/ \E r \in Requests : CallDiscoveryFails(r)
    \/ \E r \in Requests : CallDiscoveryMalformed(r)
    \/ \E r \in Requests : CallQuerySync(r)
    \/ CallSyncReturn
    \/ \E k \in DOMAIN batches : \E i \in DOMAIN tabs : QueryConnect(k, i)
    \/ \E k \in DOMAIN batches : \E i \in DOMAIN tabs : QuerySend(k, i)
    \/ \E k \in DOMAIN batches : \E i \in DOMAIN tabs : QueryRecv(k, i)

\* What the event loop does by itself: a step of a coroutine whose await
\* has completed or timed out, and the return of run_until_complete.
LoopStep ==
    \/ CallSyncReturn
    \/ \E k \in DOMAIN batches : \E i \in DOMAIN tabs : QueryConnect(k, i)
    \/ \E k \in DOMAIN batches : \E i \in DOMAIN tabs : QuerySend(k, i)
    \/ \E k \in DOMAIN batches : \E i \in DOMAIN tabs : QueryRecv(k, i)

(***************************************************************************)
(* The aggregate state of a client that holds tabs in the states earlier   *)
(* queries left them in, asked from inside a running event loop.           *)
(***************************************************************************)
\* A tab as an earlier query left it: never queried, failed on its first
\* query, or with a recorded reply.
HeldTabs ==
    LET page == ChromeTab([type |-> "page", webSocketDebuggerUrl |-> "ws://ok"])
    IN  {page, [page EXCEPT !.audio_state = "error"]}
        \cup {[page EXCEPT !.media_elements = e,
                           !.has_audio = DeriveAudio(e).has_audio,
                           !.audio_state = DeriveAudio(e).audio_state] :
                 e \in PageContents}
        \cup {ChromeTab([type |-> "service_worker",
                         webSocketDebuggerUrl |-> "ws://ok"])}

AggregateInit ==
    /\ chrome_connected = TRUE
    /\ tabs \in SeqsUpTo(HeldTabs, MaxAggTabs)
    /\ batches = <<>>
    /\ call = NoCall
    /\ endpoint = "up"

AggregateNext ==
    \E r \in Requests : r.op = "get_stream_state" /\ CallQueryInLoop(r)

(***************************************************************************)
(* One page tab queried again and again by list_tabs, the page showing     *)
(* any elements the injected script can report.                            *)
(***************************************************************************)
DeriveInit ==
    /\ chrome_connected = TRUE
    /\ tabs = <<ChromeTab([type |-> "page", webSocketDebuggerUrl |-> "ws://ok"])>>
    /\ batches = <<>>
    /\ call = NoCall
    /\ endpoint = "up"

\* The reply to Runtime.evaluate: json.loads gives the list of elements.
QueryRecvElements(k, i) ==
    /\ batches[k].q[i] = "recv"
    /\ Replies(i)
    /\ \E elements \in SeqsUpTo(MediaElement, MaxElems) :
          QueryRecord(k, i, elements)
    /\ UNCHANGED <<chrome_connected, call, endpoint>>
    /\ UNCHANGED nonBrowser

DeriveNext ==
    \/ \E r \in Requests : r.op = "list_tabs" /\ CallQuerySync(r)
    \/ CallSyncReturn
    \/ \E k \in DOMAIN batches : \E i \in DOMAIN tabs : QueryConnect(k, i)
    \/ \E k \in DOMAIN batches : \E i \in DOMAIN tabs : QuerySend(k, i)
    \/ \E k \in DOMAIN batches : \E i \in DOMAIN tabs : QueryRecvElements(k, i)

(***************************************************************************)
(* PulseAudioStateDetector, the local strategy, on one AudioStream.        *)
(***************************************************************************)
IdleTimeout == 5

\* A local strategy that never times a stream out.
PulseStateNoTimeout(st, t) ==
    IF st.corked THEN "CORKED"
    ELSE IF st.muted THEN "MUTED"
    ELSE LET volume_str == IF st.volume # <<>> THEN st.volume ELSE Vol0
             digits == SelectSeq(volume_str, IsDigit)
         IN  IF digits # <<>> /\ ParseInt(digits) = 0 THEN "IDLE"
             ELSE "RUNNING"

\* PulseAudioStateDetector.get_stream_state at time t.
PulseState(st, t) ==
    IF st.corked THEN "CORKED"
    ELSE IF st.muted THEN "MUTED"
    ELSE IF st.last_activity > 0 /\ (t - st.last_activity) > IdleTimeout THEN "IDLE"
    ELSE LET volume_str == IF st.volume # <<>> THEN st.volume ELSE Vol0
             digits == SelectSeq(volume_str, IsDigit)
         IN  \* int('') raises ValueError, which is ignored
             IF digits # <<>> /\ ParseInt(digits) = 0 THEN "IDLE"
             ELSE "RUNNING"

\* The volumes a stream can carry: what the mixer parser keeps of a
\* Volume line, or the dataclass default.
StreamVolumes ==
    {Vol0, Vol55, <<"0", "0", "%">>, <<"1", "0", "%">>, <<"%">>}

States == {"RUNNING", "CORKED", "MUTED", "IDLE"}

LocalGetStreamState ==
    /\ lret' = PulseState(stream, now)
    /\ UNCHANGED <<stream, now>>
    /\ UNCHANGED nonLocal

\* An update_stream_activity that would stamp whatever the state is.
LocalUpdateStreamActivityAlways ==
    /\ \E t \in now..MaxTime :
          /\ now' = t
          /\ stream' = [stream EXCEPT !.last_activity = t]
    /\ lret' = "none"
    /\ UNCHANGED nonLocal

\* update_stream_activity: the state is computed, then time.time() is
\* read again for the stamp.
LocalUpdateStreamActivity ==
    /\ \E t \in now..MaxTime :
          /\ now' = t
          /\ stream' = IF PulseState(stream, now) = "RUNNING"
                       THEN [stream EXCEPT !.last_activity = t]
                       ELSE stream
    /\ lret' = "none"
    /\ UNCHANGED nonLocal

\* AudioStream.update_state with the local strategy.
LocalUpdateState ==
    /\ \E t1 \in now..MaxTime : \E t2 \in t1..MaxTime :
          LET stamped == IF PulseState(stream, now) = "RUNNING"
                         THEN [stream EXCEPT !.last_activity = t1]
                         ELSE stream
          IN  /\ now' = t2
              /\ stream' = [stamped EXCEPT !.state = PulseState(stamped, t2)]
    /\ lret' = "none"
    /\ UNCHANGED nonLocal

Tick ==
    /\ now < MaxTime
    /\ now' = now + 1
    /\ lret' = "none"
    /\ UNCHANGED stream
    /\ UNCHANGED nonLocal

\* The streams merge_stream_data can hand over at time 1: last_activity
\* is the creation time for a RUNNING stream and 0.0 for any other.
LocalInit ==
    /\ now = 1
    /\ stream \in {[corked |-> c, muted |-> m, volume |-> v, state |-> s,
                     last_activity |-> IF s = "RUNNING" THEN 1 ELSE 0] :
                       c \in BOOLEAN, m \in BOOLEAN, v \in StreamVolumes,
                       s \in States}
    /\ lret = "none"

LocalNext ==
    \/ LocalGetStreamState
    \/ LocalUpdateStreamActivity
    \/ LocalUpdateState
    \/ Tick

(***************************************************************************)
(* core.py: the texts the parsers and the merge look for.                  *)
(***************************************************************************)
\* 'Sink Input #'
SinkInputHeader == <<"S", "i", "n", "k", " ", "I", "n", "p", "u", "t", " ", "#">>
\* 'application.name = '
ApplicationPrefix == <<"a", "p", "p", "l", "i", "c", "a", "t", "i", "o", "n", ".", "n", "a", "m", "e", " ", "=", " ">>
\* 'media.name = '
MediaPrefix == <<"m", "e", "d", "i", "a", ".", "n", "a", "m", "e", " ", "=", " ">>
\* 'Sink: '
SinkPrefix == <<"S", "i", "n", "k", ":", " ">>
\* 'Corked: '
CorkedPrefix == <<"C", "o", "r", "k", "e", "d", ":", " ">>
\* 'Mute: '
MutePrefix == <<"M", "u", "t", "e", ":", " ">>
\* 'Volume: '
VolumePrefix == <<"V", "o", "l", "u", "m", "e", ":", " ">>
\* 'yes'
Yes == <<"y", "e", "s">>
\* 'no'
No == <<"n", "o">>
\* 'Unknown'
Unknown == <<"U", "n", "k", "n", "o", "w", "n">>
\* 'unknown'
UnknownSink == <<"u", "n", "k", "n", "o", "w", "n">>
\* '.monitor'
MonitorSuffix == <<".", "m", "o", "n", "i", "t", "o", "r">>
\* 'Sink #'
SinkHeader == <<"S", "i", "n", "k", " ", "#">>
\* '\tName: '
SinkNamePrefix == <<"\t", "N", "a", "m", "e", ":", " ">>
\* 'alsa_output.'
AlsaOutput == <<"a", "l", "s", "a", "_", "o", "u", "t", "p", "u", "t", ".">>
\* 'unknown_sink_'
UnknownSinkName == <<"u", "n", "k", "n", "o", "w", "n", "_", "s", "i", "n", "k", "_">>

\* s.lower(), on the letters the model's texts use
Lower(s) ==
    LET upper == <<"A", "B", "C", "D", "E", "F", "G", "H", "I", "J", "K", "L", "M", "N", "O", "P", "Q", "R", "S", "T", "U", "V", "W", "X", "Y", "Z">>
        lower == <<"a", "b", "c", "d", "e", "f", "g", "h", "i", "j", "k", "l", "m", "n", "o", "p", "q", "r", "s", "t", "u", "v", "w", "x", "y", "z">>
        low(c) == IF \E i \in DOMAIN upper : upper[i] = c
                  THEN lower[CHOOSE i \in DOMAIN upper : upper[i] = c]
                  ELSE c
    IN  [i \in DOMAIN s |-> low(s[i])]

\* s.isdigit()
IsDigitText(s) == s # <<>> /\ \A i \in DOMAIN s : IsDigit(s[i])

(***************************************************************************)
(* core.py: _parse_pactl_sink_inputs.  The scan carries the records        *)
(* flushed so far, the accumulator and the exception raised, if any.       *)
(***************************************************************************)
ParseStart == [err |-> "none", streams |-> <<>>, current |-> EmptyDict]

\* One turn of the loop over the lines.
ParseLine(acc, raw) ==
    LET line == Strip(raw)
        value == Split(line, <<":", " ">>)[2]
        quoted == Split(line, <<"\"">>)
    IN  IF acc.err # "none" THEN acc
        ELSE IF StartsWith(line, SinkInputHeader) THEN
            LET flushed == IF DOMAIN acc.current # {}
                           THEN Append(acc.streams, acc.current)
                           ELSE acc.streams
                number == Split(line, <<"#">>)[2]
            IN  IF IsInt(number)
                THEN [err |-> "none", streams |-> flushed,
                      current |-> Put(EmptyDict, "id", ParseInt(number))]
                ELSE [acc EXCEPT !.err = "ValueError"]
        ELSE IF StartsWith(line, ApplicationPrefix) THEN
            IF Len(quoted) >= 2
            THEN [acc EXCEPT !.current = Put(@, "application", quoted[2])]
            ELSE [acc EXCEPT !.err = "IndexError"]
        ELSE IF StartsWith(line, MediaPrefix) THEN
            IF Len(quoted) >= 2
            THEN [acc EXCEPT !.current = Put(@, "media", quoted[2])]
            ELSE [acc EXCEPT !.err = "IndexError"]
        ELSE IF StartsWith(line, SinkPrefix) THEN
            [acc EXCEPT !.current = Put(@, "sink", value)]
        ELSE IF StartsWith(line, CorkedPrefix) THEN
            [acc EXCEPT !.current = Put(@, "corked", value = Yes)]
        ELSE IF StartsWith(line, MutePrefix) THEN
            [acc EXCEPT !.current = Put(@, "muted", value = Yes)]
        ELSE IF StartsWith(line, VolumePrefix) /\ Contains(value, <<"%">>) THEN
            [acc EXCEPT !.current =
                Put(@, "volume", Split(value, <<"%">>)[1] \o <<"%">>)]
        ELSE acc

RECURSIVE ParseLines(_, _)
ParseLines(acc, lines) ==
    IF lines = <<>> THEN acc
    ELSE ParseLines(ParseLine(acc, Head(lines)), Tail(lines))

\* _parse_pactl_sink_inputs(output), output given as its lines: the
\* records, or the exception that ended the scan.
parse_pactl_sink_inputs(lines) ==
    LET acc == ParseLines(ParseStart, lines)
    IN  IF acc.err # "none" THEN [err |-> acc.err, streams |-> <<>>]
        ELSE [err |-> "none",
              streams |-> IF DOMAIN acc.current # {}
                          THEN Append(acc.streams, acc.current)
                          ELSE acc.streams]

(***************************************************************************)
(* core.py: _parse_wpctl_status.  The two box-drawing characters of the    *)
(* section marker are written "U+2514" and "U+2500".                       *)
(***************************************************************************)
\* '└─ Streams:'
StreamsMarker == <<"U+2514", "U+2500">> \o <<" ", "S", "t", "r", "e", "a", "m", "s", ":">>

\* s.lstrip()
RECURSIVE LStrip(_)
LStrip(s) == IF s # <<>> /\ s[1] \in Whitespace THEN LStrip(Tail(s)) ELSE s

\* s.rstrip('.')
RECURSIVE RStripDots(_)
RStripDots(s) ==
    IF s # <<>> /\ s[Len(s)] = "." THEN RStripDots(SubSeq(s, 1, Len(s) - 1))
    ELSE s

\* s.split(' ', 1)
SplitOnce(s) ==
    LET spaces == {i \in DOMAIN s : s[i] = " "}
        first == CHOOSE i \in spaces : \A j \in spaces : i <= j
    IN  IF spaces = {} THEN <<s>>
        ELSE <<SubSeq(s, 1, first - 1), SubSeq(s, first + 1, Len(s))>>

\* re.match(r'^\s*\d+\.', line)
MatchesNumbered(line) ==
    LET t == LStrip(line)
    IN  \E k \in DOMAIN t :
            /\ k >= 2
            /\ t[k] = "."
            /\ \A j \in 1..(k - 1) : IsDigit(t[j])

WpctlStart == [err |-> "none", streams |-> <<>>, in_streams |-> FALSE]

\* A scan that never leaves the section once it is open.
WpctlLineNeverCloses(acc, line) ==
    LET parts == SplitOnce(Strip(line))
        number == RStripDots(parts[1])
    IN  IF acc.err # "none" THEN acc
        ELSE IF Contains(line, StreamsMarker)
        THEN [acc EXCEPT !.in_streams = TRUE]
        ELSE IF /\ acc.in_streams
                /\ Strip(line) # <<>>
                /\ MatchesNumbered(line)
                /\ Len(parts) >= 2
        THEN IF IsInt(number)
             THEN [acc EXCEPT !.streams =
                      Append(@, [id |-> ParseInt(number), name |-> parts[2],
                                 state |-> "RUNNING"])]
             ELSE [acc EXCEPT !.err = "ValueError"]
        ELSE acc

\* One turn of the loop over the lines.
WpctlLine(acc, line) ==
    LET parts == SplitOnce(Strip(line))
        number == RStripDots(parts[1])
    IN  IF acc.err # "none" THEN acc
        ELSE IF Contains(line, StreamsMarker)
        THEN [acc EXCEPT !.in_streams = TRUE]
        ELSE IF /\ Strip(line) # <<>>
                /\ ~StartsWith(line, <<" ">>)
                /\ ~StartsWith(line, <<"\t">>)
                /\ acc.in_streams
        THEN [acc EXCEPT !.in_streams = FALSE]
        ELSE IF /\ acc.in_streams
                /\ Strip(line) # <<>>
                /\ MatchesNumbered(line)
                /\ Len(parts) >= 2
        THEN IF IsInt(number)
             THEN [acc EXCEPT !.streams =
                      Append(@, [id |-> ParseInt(number), name |-> parts[2],
                                 state |-> "RUNNING"])]
             ELSE [acc EXCEPT !.err = "ValueError"]
        ELSE acc

RECURSIVE WpctlLines(_, _)
WpctlLines(acc, lines) ==
    IF lines = <<>> THEN acc
    ELSE WpctlLines(WpctlLine(acc, Head(lines)), Tail(lines))

\* _parse_wpctl_status(output), output given as its lines: the records,
\* or the exception that ended the scan.
parse_wpctl_status(lines) ==
    LET acc == WpctlLines(WpctlStart, lines)
    IN  [err |-> acc.err, streams |-> IF acc.err = "none" THEN acc.streams ELSE <<>>]

(***************************************************************************)
(* core.py: classification, sink names, merge_stream_data.                 *)
(***************************************************************************)
TeamsKeywords ==
    {<<"m", "i", "c", "r", "o", "s", "o", "f", "t", " ", "t", "e", "a", "m", "s">>, <<"t", "e", "a", "m", "s", ".", "m", "i", "c", "r", "o", "s", "o", "f", "t", ".", "c", "o", "m">>, <<"t", "e", "a", "m", "s", " ", "m", "e", "e", "t", "i", "n", "g">>,
     <<"m", "i", "c", "r", "o", "s", "o", "f", "t", " ", "t", "e", "a", "m", "s", " ", "m", "e", "e", "t", "i", "n", "g">>}

BrowserNames ==
    {<<"g", "o", "o", "g", "l", "e", " ", "c", "h", "r", "o", "m", "e">>, <<"c", "h", "r", "o", "m", "i", "u", "m">>, <<"m", "i", "c", "r", "o", "s", "o", "f", "t", " ", "e", "d", "g", "e">>, <<"f", "i", "r", "e", "f", "o", "x">>,
     <<"b", "r", "a", "v", "e">>, <<"v", "i", "v", "a", "l", "d", "i">>}

is_teams_stream(s) ==
    LET app == Lower(Get(s, "application", <<>>))
        media == Lower(Get(s, "media", <<>>))
        name == Lower(Get(s, "name", <<>>))
    IN  \E keyword \in TeamsKeywords :
            Contains(app, keyword) \/ Contains(media, keyword)
                \/ Contains(name, keyword)

is_browser_stream(s) ==
    LET app == Lower(Get(s, "application", <<>>))
        name == Lower(Get(s, "name", <<>>))
    IN  \E browser \in BrowserNames :
            Contains(app, browser) \/ Contains(name, browser)

get_monitor_source(sink_name) == sink_name \o MonitorSuffix

\* _extract_sink_name(output, sink_id), output given as its lines
extract_sink_name(lines, sink_id) ==
    LET header == SinkHeader \o IntText(sink_id)
        IsHeader(i) == StartsWith(lines[i], header)
        \* the first Name line that is not itself a header and follows one
        found == {i \in DOMAIN lines :
                     /\ ~IsHeader(i)
                     /\ StartsWith(lines[i], SinkNamePrefix)
                     /\ \E h \in 1..(i - 1) : IsHeader(h)}
        first == CHOOSE i \in found : \A j \in found : i <= j
        current_name == IF found = {} THEN <<>>
                        ELSE Split(lines[first], <<":", " ">>)[2]
    IN  IF current_name # <<>> THEN current_name
        ELSE UnknownSinkName \o IntText(sink_id)

\* The body of the loop of merge_stream_data for one mixer record, at
\* time t, with sinks the answer `pactl list sinks` gives.
MergeStream(pactl_stream, routing, sinks, t) ==
    LET stream_id == pactl_stream["id"]
        \* wpctl_lookup: of several records with one id the last one stays
        same == {i \in DOMAIN routing : routing[i]["id"] = stream_id}
        wpctl_stream == IF same = {} THEN EmptyDict
                        ELSE routing[CHOOSE i \in same : \A j \in same : j <= i]
        corked == Get(pactl_stream, "corked", FALSE)
        muted == Get(pactl_stream, "mute", FALSE)
        wpctl_state == Get(wpctl_stream, "state", "")
        volume == Get(pactl_stream, "volume", Vol0)
        state == IF wpctl_state # "" THEN wpctl_state
                 ELSE IF corked THEN "CORKED"
                 ELSE IF muted THEN "MUTED"
                 ELSE IF Contains(volume, Vol0) THEN "IDLE"
                 ELSE "RUNNING"
        sink == Get(pactl_stream, "sink", UnknownSink)
        sink_name == IF ~IsDigitText(sink) THEN sink
                     ELSE IF sinks.exit = 0
                          THEN extract_sink_name(sinks.stdout, ParseInt(sink))
                          ELSE AlsaOutput \o sink
    IN  [id |-> stream_id,
         state |-> state,
         application |-> Get(pactl_stream, "application", Unknown),
         media |-> Get(pactl_stream, "media", Unknown),
         sink |-> sink,
         sink_name |-> sink_name,
         monitor |-> get_monitor_source(sink_name),
         volume |-> volume,
         is_teams |-> is_teams_stream(pactl_stream),
         is_browser |-> is_browser_stream(pactl_stream),
         last_activity |-> IF state = "RUNNING" THEN t ELSE 0,
         corked |-> Get(pactl_stream, "corked", FALSE),
         muted |-> Get(pactl_stream, "muted", FALSE)]

\* merge_stream_data raises KeyError on a record that carries no id.
MergeRaises(records) == \E i \in DOMAIN records : "id" \notin DOMAIN records[i]

\* A merge that also keeps the routing records no mixer record matches.
MergeKeepsUnmatchedRouting(records, routing, sinks, t) ==
    LET Unmatched(r) == \A i \in DOMAIN records : records[i]["id"] # r["id"]
        extra == SelectSeq(routing, Unmatched)
    IN  [i \in DOMAIN records |-> MergeStream(records[i], routing, sinks, t)]
            \o [i \in DOMAIN extra |->
                    MergeStream(Put(EmptyDict, "id", extra[i]["id"]),
                                routing, sinks, t)]

merge_stream_data(records, routing, sinks, t) ==
    [i \in DOMAIN records |-> MergeStream(records[i], routing, sinks, t)]

(***************************************************************************)
(* One poll of list_audio_streams(detector_type).  Within one poll         *)
(* time.time() is read as `now`: a poll is short against the seconds the   *)
(* idle timeout counts.                                                    *)
(***************************************************************************)
\* list_sink_inputs_pactl: a nonzero exit gives no records; an exception
\* of the parser is not caught.
ListSinkInputsPactl ==
    /\ mpc = "start"
    /\ LET parsed == parse_pactl_sink_inputs(pactl_out.stdout)
       IN  IF pactl_out.exit # 0
           THEN pactl_streams' = <<>> /\ mpc' = "listed"
           ELSE IF parsed.err # "none"
           THEN pactl_streams' = pactl_streams /\ mpc' = parsed.err
           ELSE pactl_streams' = parsed.streams /\ mpc' = "listed"
    /\ UNCHANGED <<pactl_out, wpctl_out, wpctl_streams, sinks_out, merged,
                   detector_type, refreshed>>
    /\ UNCHANGED nonMerge

\* A list_streams_wpctl that lets the tool's nonzero exit go up.
ListStreamsWpctlRaises ==
    /\ mpc = "listed"
    /\ LET parsed == parse_wpctl_status(wpctl_out.stdout)
       IN  IF wpctl_out.exit # 0
           THEN wpctl_streams' = wpctl_streams /\ mpc' = "CalledProcessError"
           ELSE IF parsed.err # "none"
           THEN wpctl_streams' = wpctl_streams /\ mpc' = "wpctl ValueError"
           ELSE wpctl_streams' = parsed.streams /\ mpc' = "routed"
    /\ UNCHANGED <<pactl_out, wpctl_out, pactl_streams, sinks_out, merged,
                   detector_type, refreshed>>
    /\ UNCHANGED nonMerge

\* list_streams_wpctl: a nonzero exit gives no records; an exception of
\* the parser is not caught.
ListStreamsWpctl ==
    /\ mpc = "listed"
    /\ LET parsed == parse_wpctl_status(wpctl_out.stdout)
       IN  IF wpctl_out.exit # 0
           THEN wpctl_streams' = <<>> /\ mpc' = "routed"
           ELSE IF parsed.err # "none"
           THEN wpctl_streams' = wpctl_streams /\ mpc' = "wpctl ValueError"
           ELSE wpctl_streams' = parsed.streams /\ mpc' = "routed"
    /\ UNCHANGED <<pactl_out, wpctl_out, pactl_streams, sinks_out, merged,
                   detector_type, refreshed>>
    /\ UNCHANGED nonMerge

\* streams = merge_stream_data(pactl_streams, wpctl_streams)
Merge ==
    /\ mpc = "routed"
    /\ IF MergeRaises(pactl_streams)
       THEN merged' = merged /\ mpc' = "KeyError"
       ELSE /\ merged' = merge_stream_data(pactl_streams, wpctl_streams,
                                           sinks_out, now)
            /\ mpc' = "merged"
    /\ UNCHANGED <<pactl_out, wpctl_out, wpctl_streams, sinks_out,
                   pactl_streams, detector_type, refreshed>>
    /\ UNCHANGED nonMerge

\* StateDetectorFactory.get_available_detectors
DetectorTypes == {"pulse", "browser", "hybrid"}

\* detector = StateDetectorFactory.create_detector(detector_type); with no
\* stream to refresh the poll returns at once.
CreateDetector ==
    /\ mpc = "merged"
    /\ mpc' = IF detector_type \notin DetectorTypes THEN "detector ValueError"
              ELSE IF merged = <<>> THEN "done"
              ELSE "refreshing"
    /\ refreshed' = 0
    /\ UNCHANGED <<pactl_out, wpctl_out, wpctl_streams, sinks_out,
                   pactl_streams, merged, detector_type>>
    /\ UNCHANGED nonMerge

\* What BrowserStateDetector.get_stream_state gives its caller: a state of
\* its mapping or of the basic detection, or an exception.
RemoteResults ==
    {StateMapping(b) : b \in {"playing", "muted", "paused", "unknown"}}
        \cup {BasicDetection(v) : v \in Volumes}
        \cup {"raised"}

\* HybridStateDetector.get_stream_state, given the browser detector's value
HybridState(browser_state, st, t) ==
    IF browser_state # "UNKNOWN" THEN browser_state ELSE PulseState(st, t)

\* An update_state that also takes the stream's sink for its sink name.
UpdateStateRenamesSink(st, first, second, t) ==
    LET stamped == IF first = "RUNNING"
                   THEN [st EXCEPT !.last_activity = t]
                   ELSE st
    IN  IF first = "raised" THEN [raised |-> TRUE, stream |-> st]
        ELSE IF second = "raised" THEN [raised |-> TRUE, stream |-> stamped]
        ELSE [raised |-> FALSE,
              stream |-> [stamped EXCEPT !.state = second,
                                         !.sink_name = st.sink]]

\* AudioStream.update_state on a stream st at time t, with a detector whose
\* get_stream_state gives `first` inside update_stream_activity and
\* `second` afterwards.  An exception ends the call where it is raised.
UpdateStateWith(st, first, second, t) ==
    LET stamped == IF first = "RUNNING"
                   THEN [st EXCEPT !.last_activity = t]
                   ELSE st
    IN  IF first = "raised" THEN [raised |-> TRUE, stream |-> st]
        ELSE IF second = "raised" THEN [raised |-> TRUE, stream |-> stamped]
        ELSE [raised |-> FALSE, stream |-> [stamped EXCEPT !.state = second]]

\* One turn of `for stream in streams: stream.update_state(detector)`;
\* after the last turn the poll returns.
Refresh(result) ==
    /\ merged' = [merged EXCEPT ![refreshed + 1] = result.stream]
    /\ refreshed' = refreshed + 1
    /\ mpc' = IF result.raised THEN "raised"
              ELSE IF refreshed + 1 = Len(merged) THEN "done"
              ELSE "refreshing"
    /\ UNCHANGED <<pactl_out, wpctl_out, wpctl_streams, sinks_out,
                   pactl_streams, detector_type>>
    /\ UNCHANGED nonMerge

UpdateStatePulse ==
    /\ mpc = "refreshing"
    /\ detector_type = "pulse"
    /\ LET st == merged[refreshed + 1]
           first == PulseState(st, now)
           stamped == IF first = "RUNNING"
                      THEN [st EXCEPT !.last_activity = now]
                      ELSE st
       IN  Refresh(UpdateStateWith(st, first, PulseState(stamped, now), now))

UpdateStateBrowser ==
    /\ mpc = "refreshing"
    /\ detector_type = "browser"
    /\ \E first \in RemoteResults : \E second \in RemoteResults :
          Refresh(UpdateStateWith(merged[refreshed + 1], first, second, now))

UpdateStateHybrid ==
    /\ mpc = "refreshing"
    /\ detector_type = "hybrid"
    /\ \E first \in RemoteResults : \E second \in RemoteResults :
          LET st == merged[refreshed + 1]
              Hybrid(r, s) == IF r = "raised" THEN r ELSE HybridState(r, s, now)
              stamped == IF Hybrid(first, st) = "RUNNING"
                         THEN [st EXCEPT !.last_activity = now]
                         ELSE st
          IN  Refresh(UpdateStateWith(st, Hybrid(first, st),
                                      Hybrid(second, stamped), now))

(***************************************************************************)
(* What the tools print.                                                   *)
(***************************************************************************)
RECURSIVE Concat(_)
Concat(seqs) == IF seqs = <<>> THEN <<>> ELSE Head(seqs) \o Concat(Tail(seqs))

\* A property line of `pactl list sink-inputs`, indented by a tab.
Prop(prefix, value) == <<"\t">> \o prefix \o value

\* The lines of one sink input.
Block(number, props) == <<SinkInputHeader \o number>> \o props

Quoted(text) == <<"\"">> \o text \o <<"\"">>

OneOrNone(lines) == {<<>>} \cup {<<l>> : l \in lines}

CorkedLines == OneOrNone({Prop(CorkedPrefix, v) : v \in {Yes, No}})

MuteLines == OneOrNone({Prop(MutePrefix, v) : v \in {Yes, No}})

MixerVolumes ==
    {Vol0, <<"1", "0", "%">>, <<"5", "0", "%">>, <<"6", "5", "%">>, <<"1", "0", "0", "%">>,
     <<"f", "r", "o", "n", "t", "-", "l", "e", "f", "t", ":", " ", "6", "5", "5", "3", "6", " ", "/", " ", "1", "0", "0", "%", " ", "/", " ", "0", ".", "0", "0", " ", "d", "B">>}

VolumeLines == OneOrNone({Prop(VolumePrefix, v) : v \in MixerVolumes})

ApplicationLines ==
    {<<Prop(ApplicationPrefix, Quoted(a)), Prop(MediaPrefix, Quoted(m))>> :
        a \in {<<"G", "o", "o", "g", "l", "e", " ", "C", "h", "r", "o", "m", "e">>, <<"m", "p", "v">>},
        m \in {<<"P", "l", "a", "y", "b", "a", "c", "k">>, <<"M", "i", "c", "r", "o", "s", "o", "f", "t", " ", "T", "e", "a", "m", "s", " ", "m", "e", "e", "t", "i", "n", "g">>,
               <<"M", "o", "z", "i", "l", "l", "a", " ", "F", "i", "r", "e", "f", "o", "x">>}}

SinkLines ==
    {<<Prop(SinkPrefix, s)>> : s \in {<<"1">>, <<"a", "l", "s", "a", "_", "o", "u", "t", "p", "u", "t", ".", "p", "c", "i">>}}

\* A block that plays: not corked, not muted, volume 65%.
PlainProps ==
    <<Prop(CorkedPrefix, No), Prop(MutePrefix, No), Prop(VolumePrefix, <<"6", "5", "%">>)>>

MixerIds == {<<"7">>, <<"4", "2">>}

\* A record of _parse_wpctl_status.
RoutingRecord(n) == [id |-> n, name |-> <<"C", "h", "r", "o", "m", "e">>, state |-> "RUNNING"]

RoutingIds == {7, 42, 99}

\* `pactl list sinks`
SinkListings ==
    {[exit |-> 1, stdout |-> <<>>],
     [exit |-> 0, stdout |-> <<>>],
     [exit |-> 0, stdout |-> <<<<"S", "i", "n", "k", " ", "#", "1">>, <<"\t", "N", "a", "m", "e", ":", " ", "s", "p", "e", "a", "k", "e", "r", "s">>>>],
     [exit |-> 0, stdout |-> <<<<"S", "i", "n", "k", " ", "#", "1", "0">>, <<"\t", "N", "a", "m", "e", ":", " ", "h", "d", "m", "i">>,
                               <<"S", "i", "n", "k", " ", "#", "1">>, <<"\t", "N", "a", "m", "e", ":", " ", "s", "p", "e", "a", "k", "e", "r", "s">>>>]}

NoSinks == [exit |-> 1, stdout |-> <<>>]

Listing(lines) == [exit |-> 0, stdout |-> lines]

\* One sink input with every combination of Corked, Mute and Volume lines,
\* with and without a routing record of its id.
OneStreamPolls ==
    {[pactl |-> Listing(Block(<<"4", "2">>, c \o m \o v)), routing |-> r,
      sinks |-> NoSinks] :
        c \in CorkedLines, m \in MuteLines, v \in VolumeLines,
        r \in {<<>>, <<RoutingRecord(42)>>, <<RoutingRecord(7)>>}}

\* Several sink inputs and several routing records.
ManyStreamPolls ==
    {[pactl |-> Listing(Concat([i \in DOMAIN ids |-> Block(ids[i], PlainProps)])),
      routing |-> [i \in DOMAIN rids |-> RoutingRecord(rids[i])],
      sinks |-> NoSinks] :
        ids \in SeqsUpTo(MixerIds, MaxRecords),
        rids \in SeqsUpTo(RoutingIds, MaxRouting)}

\* One sink input with names and a sink.
NamedStreamPolls ==
    {[pactl |-> Listing(Block(<<"4", "2">>, a \o s \o PlainProps)), routing |-> <<>>,
      sinks |-> l] :
        a \in ApplicationLines, s \in SinkLines, l \in SinkListings}

\* One sink input with the six property lines, or with some of them left
\* out; the Volume line as short as '65%' or as pactl prints it.
FullBlockPolls ==
    {[pactl |-> Listing(Block(<<"4", "2">>, a \o m \o s \o c \o u \o v)),
      routing |-> <<>>, sinks |-> NoSinks] :
        a \in OneOrNone({Prop(ApplicationPrefix, Quoted(<<"G", "o", "o", "g", "l", "e", " ", "C", "h", "r", "o", "m", "e">>))}),
        m \in OneOrNone({Prop(MediaPrefix, Quoted(<<"P", "l", "a", "y", "b", "a", "c", "k">>))}),
        s \in OneOrNone({Prop(SinkPrefix, <<"a", "l", "s", "a", "_", "o", "u", "t", "p", "u", "t", ".", "p", "c", "i">>)}),
        c \in OneOrNone({Prop(CorkedPrefix, Yes)}),
        u \in OneOrNone({Prop(MutePrefix, Yes)}),
        v \in OneOrNone({Prop(VolumePrefix, <<"6", "5", "%">>),
                         Prop(VolumePrefix, <<"6", "5", "%", " ", "/", " ", "-", "1", "1", ".", "0", "0", " ", "d", "B">>),
                         Prop(VolumePrefix,
                              <<"f", "r", "o", "n", "t", "-", "l", "e", "f", "t", ":", " ", "6", "5", "5", "3", "6", " ", "/", " ", "1", "0", "0", "%", " ", "/", " ", "0", ".", "0", "0", " ", "d", "B">>)})}

\* A failed listing, and listings the parser does not expect: a header
\* that carries no number, property lines before the first header or with
\* no header, names without quotes, lines it does not know.
OddPolls ==
    {[pactl |-> o, routing |-> <<>>, sinks |-> NoSinks] :
        o \in {[exit |-> 1, stdout |-> <<>>],
               Listing(Block(<<"x", "1">>, PlainProps)),
               Listing(Block(<<"4", "2">>, PlainProps) \o Block(<<"x", "1">>, PlainProps)),
               Listing(PlainProps \o Block(<<"4", "2">>, PlainProps)),
               Listing(PlainProps),
               Listing(Block(<<"4", "2">>, <<Prop(ApplicationPrefix, <<"m", "p", "v">>)>>)),
               Listing(Block(<<"7">>, PlainProps)
                           \o Block(<<"4", "2">>, <<Prop(MediaPrefix, <<"P", "l", "a", "y", "b", "a", "c", "k">>)>>)),
               Listing(Block(<<"4", "2">>, <<<<"\t", "D", "r", "i", "v", "e", "r", ":", " ", "P", "i", "p", "e", "W", "i", "r", "e">>, <<>>,
                                         Prop(VolumePrefix, <<"m", "u", "t", "e", "d">>),
                                         <<"\t", "S", "i", "n", "k", ":">>>>)
                           \o Block(<<"7">>, PlainProps))}}

\* `wpctl status`: the Audio part with its sinks and its streams, one line
\* for each record, then the Video part.
WpctlStatus(records) ==
    <<<<"P", "i", "p", "e", "W", "i", "r", "e", " ", "'", "p", "i", "p", "e", "w", "i", "r", "e", "-", "0", "'">>, <<>>, <<"A", "u", "d", "i", "o">>,
      <<" ", "U+251C", "U+2500">> \o <<" ", "S", "i", "n", "k", "s", ":">>,
      <<" ", "U+2502">> \o <<" ", " ", "*", " ", " ", " ", "5", "2", ".", " ", "B", "u", "i", "l", "t", "-", "i", "n", " ", "A", "u", "d", "i", "o", " ", "A", "n", "a", "l", "o", "g", " ", "S", "t", "e", "r", "e", "o", " ", "v", "o", "l", ":", " ", "0", ".", "4", "0">>,
      <<" ", "U+2502">>,
      <<" ">> \o StreamsMarker>>
    \o [i \in DOMAIN records |->
           <<" ", " ", " ", " ", " ", " ", " ", " ">> \o IntText(records[i]["id"]) \o <<".", " ">>
               \o records[i]["name"] \o <<" ", " ", " ">>]
    \o <<<<>>, <<"V", "i", "d", "e", "o">>, <<" ">> \o StreamsMarker, <<>>, <<"S", "e", "t", "t", "i", "n", "g", "s">>,
         <<" ">> \o StreamsMarker \o <<" ", "n", "o", "n", "e">>>>

\* A `wpctl status` that ended with a nonzero exit.
WpctlFailed == [exit |-> 1, stdout |-> <<>>]

\* What `wpctl status` answers in a poll whose routing graph holds the
\* records `routing`.
WpctlAnswers(routing) ==
    {Listing(WpctlStatus(routing))}
        \cup (IF routing = <<>> THEN {WpctlFailed} ELSE {})

MergeInit ==
    /\ \E poll \in OneStreamPolls \cup ManyStreamPolls \cup NamedStreamPolls
                       \cup FullBlockPolls \cup OddPolls :
          /\ pactl_out = poll.pactl
          /\ wpctl_out \in WpctlAnswers(poll.routing)
          /\ sinks_out = poll.sinks
    /\ wpctl_streams = <<>>
    /\ pactl_streams = <<>>
    /\ merged = <<>>
    /\ mpc = "start"
    /\ detector_type = "pulse"
    /\ refreshed = 0

MergeNext ==
    \/ ListSinkInputsPactl
    \/ ListStreamsWpctl
    \/ Merge
    \/ CreateDetector
    \/ UpdateStatePulse

\* Polls of one or two sink inputs, refreshed with each detector type.
RefreshPolls ==
    NamedStreamPolls
        \cup {[pactl |-> Listing(Block(<<"7">>, c \o v)
                                    \o Block(<<"4", "2">>, <<Prop(SinkPrefix, <<"1">>)>> \o c \o v)),
               routing |-> r, sinks |-> l] :
                 c \in CorkedLines, v \in VolumeLines,
                 r \in {<<>>, <<RoutingRecord(42)>>},
                 l \in SinkListings}

RefreshInit ==
    /\ \E poll \in RefreshPolls :
          /\ pactl_out = poll.pactl
          /\ wpctl_out \in WpctlAnswers(poll.routing)
          /\ sinks_out = poll.sinks
    /\ wpctl_streams = <<>>
    /\ pactl_streams = <<>>
    /\ merged = <<>>
    /\ mpc = "start"
    /\ detector_type \in DetectorTypes
    /\ refreshed = 0

RefreshNext ==
    \/ ListSinkInputsPactl
    \/ ListStreamsWpctl
    \/ Merge
    \/ CreateDetector
    \/ UpdateStatePulse
    \/ UpdateStateBrowser
    \/ UpdateStateHybrid

(***************************************************************************)
(* list_streams_wpctl on dumps put together from the kinds of line the     *)
(* parser tells apart.                                                     *)
(***************************************************************************)
DumpLines ==
    {<<" ">> \o StreamsMarker,
     <<" ", " ", " ", " ", " ", " ", " ", " ", "4", "2", ".", " ", "C", "h", "r", "o", "m", "e">>,
     <<"7", ".", " ", "m", "p", "v">>,
     <<"\t", "1", "0", "3", ".", " ", "o", "u", "t", "p", "u", "t", "_", "F", "L">>,
     <<" ", " ", " ", " ", "4", "2", ".", "5", " ", "x">>,
     <<"V", "i", "d", "e", "o">>,
     <<>>}

RoutingDumps == SeqsUpTo(DumpLines, MaxLines)

RoutingInit ==
    /\ pactl_out = [exit |-> 0, stdout |-> <<>>]
    /\ sinks_out = [exit |-> 0, stdout |-> <<>>]
    /\ wpctl_out \in {Listing(d) : d \in RoutingDumps} \cup {WpctlFailed}
    /\ wpctl_streams = <<>>
    /\ pactl_streams = <<>>
    /\ merged = <<>>
    /\ mpc = "listed"
    /\ detector_type = "pulse"
    /\ refreshed = 0

RoutingNext == ListStreamsWpctl

(***************************************************************************)
(* core.py: create_virtual_sink(name) against the sinks of the sound       *)
(* server.                                                                 *)
(***************************************************************************)
\* The text `pactl list sinks` prints for the server's sinks.
RECURSIVE SinkListing(_, _)
SinkListing(names, number) ==
    IF names = <<>> THEN <<>>
    ELSE SinkHeader \o IntText(number) \o <<"\n">>
            \o SinkNamePrefix \o Head(names) \o <<"\n">>
            \o <<"\t", "D", "r", "i", "v", "e", "r", ":", " ", "P", "i", "p", "e", "W", "i", "r", "e">> \o <<"\n">>
            \o SinkListing(Tail(names), number + 1)

\* The sink names of the model: the default name of create_virtual_sink,
\* a name that contains it, a name it contains, and one apart.
ChromeTabSink == <<"c", "h", "r", "o", "m", "e", "_", "t", "a", "b", "_", "s", "i", "n", "k">>

SinkNames == {ChromeTabSink, ChromeTabSink \o <<"_", "2">>, <<"c", "h", "r", "o", "m", "e", "_", "t", "a", "b">>, <<"s", "p", "e", "a", "k", "e", "r", "s">>}

\* The sinks the server can hold before the first call: no two of one name.
PriorSinks ==
    {s \in SeqsUpTo(SinkNames, MaxSinks) :
        \A i \in DOMAIN s : \A j \in DOMAIN s : s[i] = s[j] => i = j}

\* create_virtual_sink(name); `list_ok` and `load_ok` say whether the two
\* pactl calls exit with 0.
CreateVirtualSink(name, list_ok, load_ok) ==
    /\ IF ~list_ok
       THEN server_sinks' = server_sinks /\ cvs' = [name |-> name, ret |-> FALSE, loaded |-> FALSE]
       ELSE IF Contains(SinkListing(server_sinks, 0), name)
       THEN server_sinks' = server_sinks /\ cvs' = [name |-> name, ret |-> TRUE, loaded |-> FALSE]
       ELSE IF ~load_ok
       THEN server_sinks' = server_sinks /\ cvs' = [name |-> name, ret |-> FALSE, loaded |-> FALSE]
       ELSE /\ server_sinks' = Append(server_sinks, name)
            /\ cvs' = [name |-> name, ret |-> TRUE, loaded |-> TRUE]
    /\ UNCHANGED nonSinks

SinkIdle ==
    /\ server_sinks = <<>>
    /\ cvs = [name |-> <<>>, ret |-> FALSE, loaded |-> FALSE]

SinkInit ==
    /\ server_sinks \in PriorSinks
    /\ cvs = [name |-> <<>>, ret |-> FALSE, loaded |-> FALSE]

SinkNext ==
    \E name \in SinkNames : \E list_ok \in BOOLEAN : \E load_ok \in BOOLEAN :
          CreateVirtualSink(name, list_ok, load_ok)

(***************************************************************************)
(* audio_buffer.py: AudioBuffer, used by producer threads                  *)
(* (add_audio_data), consumer threads (get_next_chunk) and clear.  Every   *)
(* method body runs under the one lock; Condition.wait gives the lock up   *)
(* and takes it again after a notify or after the timeout.                 *)
(* Samples are numbered in the order they are added.  Time is in seconds   *)
(* and starts at chunk_duration: time.time() is never below it.            *)
(***************************************************************************)
\* The arguments of AudioBuffer(...), scaled down.
chunk_duration == 2
overlap == 1
sample_rate == 1
max_chunks == 2

chunk_samples == chunk_duration * sample_rate
overlap_samples == overlap * sample_rate
step_samples == chunk_samples - overlap_samples

Consumers == 1..NumConsumers

\* The number of chunks made since __init__ or clear.
produced == Len(made)

\* deque(maxlen=max_chunks).append(x)
DequeAppend(d, x) ==
    IF Len(d) < max_chunks THEN Append(d, x) ELSE Append(Tail(d), x)

\* s[n:]
Drop(s, n) == IF n >= Len(s) THEN <<>> ELSE SubSeq(s, n + 1, Len(s))

\* What a get_next_chunk call returned: nothing yet, None, or a pair.
NoReturn == [kind |-> "none", chunk |-> <<>>, timestamp |-> 0]
ReturnNone == [kind |-> "None", chunk |-> <<>>, timestamp |-> 0]
ReturnPair(chunk, timestamp) ==
    [kind |-> "pair", chunk |-> chunk, timestamp |-> timestamp]

NotCalling == [pc |-> "idle", timeout |-> "None", woke |-> "no", ret |-> NoReturn]

\* The samples of one add_audio_data call.
NewSamples(n) == [i \in 1..n |-> next_sample + i - 1]

\* Accumulation that would cut the chunk from the newest samples.
AccumulateNewest(data) ==
    LET acc == accumulation_buffer \o data
        due == /\ Len(acc) >= chunk_samples
               /\ buffer_time - last_process_time >= chunk_duration
    IN  [due |-> due,
         chunk |-> IF due THEN Drop(acc, Len(acc) - chunk_samples) ELSE <<>>,
         acc |-> IF due THEN Drop(acc, step_samples) ELSE acc]

\* The accumulation step of add_audio_data: the buffer after the new data,
\* whether a chunk is due, the chunk, and what stays accumulated.
Accumulate(data) ==
    LET acc == accumulation_buffer \o data
        due == /\ Len(acc) >= chunk_samples
               /\ buffer_time - last_process_time >= chunk_duration
    IN  [due |-> due,
         chunk |-> IF due THEN SubSeq(acc, 1, chunk_samples) ELSE <<>>,
         acc |-> IF due THEN Drop(acc, step_samples) ELSE acc]

\* add_audio_data(audio_data) with n samples; notify() wakes one of the
\* consumers that wait, if there is one (`woken`, 0 for none).
AddAudioData(n, woken) ==
    /\ next_sample + n <= MaxSamples + 1
    /\ LET a == Accumulate(NewSamples(n))
           waiting == {c \in Consumers : consumers[c].pc = "waiting"}
       IN  /\ accumulation_buffer' = a.acc
           /\ audio_buffer' = IF a.due THEN DequeAppend(audio_buffer, a.chunk)
                              ELSE audio_buffer
           /\ timestamp_buffer' = IF a.due
                                  THEN DequeAppend(timestamp_buffer, buffer_time)
                                  ELSE timestamp_buffer
           /\ last_process_time' = IF a.due THEN buffer_time ELSE last_process_time
           /\ made' = IF a.due
                      THEN Append(made, [chunk |-> a.chunk,
                                         timestamp |-> buffer_time])
                      ELSE made
           /\ IF a.due /\ waiting # {}
              THEN /\ woken \in waiting
                   /\ consumers' = [consumers EXCEPT ![woken].pc = "notified"]
              ELSE /\ woken = 0
                   /\ consumers' = consumers
    /\ next_sample' = next_sample + n
    /\ UNCHANGED <<processed_buffer, buffer_time, first_sample, handed>>
    /\ UNCHANGED nonBuffer

\* A get_next_chunk that pops without looking at the queue again after
\* the wait.
TakeUnchecked(c, timeout, woke) ==
    IF audio_buffer = <<>>
    THEN /\ consumers' = [consumers EXCEPT ![c] =
                             [pc |-> "raised", timeout |-> timeout,
                              woke |-> woke,
                              ret |-> [NoReturn EXCEPT !.kind = "IndexError"]]]
         /\ UNCHANGED <<audio_buffer, timestamp_buffer, processed_buffer, handed>>
    ELSE /\ audio_buffer' = Tail(audio_buffer)
         /\ timestamp_buffer' = Tail(timestamp_buffer)
         /\ processed_buffer' =
               DequeAppend(processed_buffer,
                           <<Head(audio_buffer), Head(timestamp_buffer)>>)
         /\ handed' = Append(handed, [chunk |-> Head(audio_buffer),
                                      timestamp |-> Head(timestamp_buffer),
                                      to |-> c])
         /\ consumers' = [consumers EXCEPT ![c] =
                             [pc |-> "returned", timeout |-> timeout,
                              woke |-> woke,
                              ret |-> ReturnPair(Head(audio_buffer),
                                                Head(timestamp_buffer))]]

\* The end of get_next_chunk, after the wait if there was one: None when
\* the queue is empty, else the oldest chunk and its timestamp.
Take(c, timeout, woke) ==
    IF audio_buffer = <<>>
    THEN /\ consumers' = [consumers EXCEPT ![c] =
                             [pc |-> "returned", timeout |-> timeout,
                              woke |-> woke, ret |-> ReturnNone]]
         /\ UNCHANGED <<audio_buffer, timestamp_buffer, processed_buffer, handed>>
    ELSE /\ audio_buffer' = Tail(audio_buffer)
         /\ timestamp_buffer' = Tail(timestamp_buffer)
         /\ processed_buffer' =
               DequeAppend(processed_buffer,
                           <<Head(audio_buffer), Head(timestamp_buffer)>>)
         /\ handed' = Append(handed, [chunk |-> Head(audio_buffer),
                                      timestamp |-> Head(timestamp_buffer),
                                      to |-> c])
         /\ consumers' = [consumers EXCEPT ![c] =
                             [pc |-> "returned", timeout |-> timeout,
                              woke |-> woke,
                              ret |-> ReturnPair(Head(audio_buffer),
                                                Head(timestamp_buffer))]]

\* get_next_chunk(timeout) is called: with a chunk in the queue it returns
\* it, with none it waits.
GetNextChunk(c, timeout) ==
    /\ consumers[c].pc \in {"idle", "returned"}
    /\ IF audio_buffer = <<>>
       THEN /\ consumers' = [consumers EXCEPT ![c] =
                                [pc |-> "waiting", timeout |-> timeout,
                                 woke |-> "no", ret |-> NoReturn]]
            /\ UNCHANGED <<audio_buffer, timestamp_buffer, processed_buffer,
                           handed>>
       ELSE Take(c, timeout, "no")
    /\ UNCHANGED <<accumulation_buffer, last_process_time, buffer_time,
                   next_sample, first_sample, made>>
    /\ UNCHANGED nonBuffer

\* wait() returns in a consumer that a notify() woke, once it has the lock
\* again.
WakeNotified(c) ==
    /\ consumers[c].pc = "notified"
    /\ Take(c, consumers[c].timeout, "notify")
    /\ UNCHANGED <<accumulation_buffer, last_process_time, buffer_time,
                   next_sample, first_sample, made>>
    /\ UNCHANGED nonBuffer

\* wait(timeout) returns because the timeout is over.
WakeTimeout(c) ==
    /\ consumers[c].pc = "waiting"
    /\ consumers[c].timeout # "None"
    /\ Take(c, consumers[c].timeout, "timeout")
    /\ UNCHANGED <<accumulation_buffer, last_process_time, buffer_time,
                   next_sample, first_sample, made>>
    /\ UNCHANGED nonBuffer

\* clear()
Clear ==
    /\ audio_buffer' = <<>>
    /\ timestamp_buffer' = <<>>
    /\ processed_buffer' = <<>>
    /\ accumulation_buffer' = <<>>
    /\ last_process_time' = 0
    /\ first_sample' = next_sample
    /\ made' = <<>>
    /\ handed' = <<>>
    /\ UNCHANGED <<buffer_time, next_sample, consumers>>
    /\ UNCHANGED nonBuffer

\* Environment: a second passes.
BufferTick ==
    /\ buffer_time < MaxClock
    /\ buffer_time' = buffer_time + 1
    /\ UNCHANGED <<accumulation_buffer, audio_buffer, timestamp_buffer,
                   processed_buffer, last_process_time, consumers,
                   next_sample, first_sample, made, handed>>
    /\ UNCHANGED nonBuffer

\* AudioBuffer.__init__
BufferFresh ==
    /\ accumulation_buffer = <<>>
    /\ audio_buffer = <<>>
    /\ timestamp_buffer = <<>>
    /\ processed_buffer = <<>>
    /\ last_process_time = 0
    /\ consumers = [c \in Consumers |-> NotCalling]
    /\ next_sample = 1
    /\ first_sample = 1
    /\ made = <<>>
    /\ handed = <<>>

BufferIdle == BufferFresh /\ buffer_time = chunk_duration

BufferInit == BufferFresh /\ buffer_time = chunk_duration

BufferNext ==
    \/ \E n \in 0..MaxData : \E woken \in {0} \cup Consumers : AddAudioData(n, woken)
    \/ \E c \in Consumers : \E timeout \in {"None", "finite"} : GetNextChunk(c, timeout)
    \/ \E c \in Consumers : WakeNotified(c)
    \/ \E c \in Consumers : WakeTimeout(c)
    \/ Clear
    \/ BufferTick

(***************************************************************************)
(* TeamsRecorder: the monitoring loop of run and the recording process it  *)
(* starts and stops.  Times are seconds; time 0 is never read, so a        *)
(* last_teams_seen of 0 stands for None.                                   *)
(***************************************************************************)
grace_period == 2
poll_interval == 1

NoPoll == [result |-> "none", current_time |-> 0]

\* elapsed > self.grace_period at a poll that reads time t.
GraceOverAtOnce(t) == t - last_teams_seen >= 0

GraceOver(t) == t - last_teams_seen > grace_period

\* stop_recording: terminate, or kill after the wait timed out, then
\* forget the process.
StopRecording ==
    /\ live' = live \ {recording_process}
    /\ recording_process' = 0
    /\ is_recording' = FALSE

\* One turn of the loop in which detect_teams_audio returns: the time is
\* read, the recording is started or stopped, then the loop sleeps.
\* popen is what subprocess.Popen does if it is called.
Poll(teams_active, t, popen) ==
    /\ rpc = "loop"
    /\ t >= rec_time + poll_interval
    /\ t <= MaxPollTime
    /\ rec_time' = t
    /\ last_poll' = [result |-> IF teams_active THEN "detected" ELSE "absent",
                current_time |-> t]
    /\ last_teams_seen' = IF teams_active THEN t ELSE last_teams_seen
    /\ last_detected' = IF teams_active THEN t ELSE last_detected
    /\ IF teams_active /\ ~is_recording
       THEN CASE popen = "ok" ->
                   /\ spawned' = spawned + 1
                   /\ recording_process' = spawned + 1
                   /\ live' = live \cup {spawned + 1}
                   /\ is_recording' = TRUE
                   /\ rpc' = rpc
              [] popen = "OSError" ->
                   \* caught by `except Exception` in run
                   UNCHANGED <<spawned, recording_process, live,
                               is_recording, rpc>>
              [] popen = "FileNotFoundError" ->
                   \* sys.exit(1)
                   /\ rpc' = "exited"
                   /\ UNCHANGED <<spawned, recording_process, live,
                                  is_recording>>
       ELSE /\ popen = "ok"
            /\ IF ~teams_active /\ is_recording /\ last_teams_seen # 0
                  /\ GraceOver(t)
               THEN StopRecording
               ELSE UNCHANGED <<recording_process, live, is_recording>>
            /\ UNCHANGED <<spawned, rpc>>
    /\ UNCHANGED nonRecorder

\* One turn of the loop in which detect_teams_audio raises: an OSError of
\* subprocess.run is caught by `except Exception` and the loop sleeps;
\* FileNotFoundError ends the program with sys.exit(1).
DetectRaises(t, err) ==
    /\ rpc = "loop"
    /\ t >= rec_time + poll_interval
    /\ t <= MaxPollTime
    /\ rec_time' = t
    /\ last_poll' = [result |-> "raised", current_time |-> t]
    /\ rpc' = IF err = "FileNotFoundError" THEN "exited" ELSE rpc
    /\ UNCHANGED <<recording_process, is_recording, last_teams_seen,
                   last_detected, live, spawned>>
    /\ UNCHANGED nonRecorder

\* KeyboardInterrupt between two polls: stop_recording, then break.
KeyboardInterrupt ==
    /\ rpc = "loop"
    /\ StopRecording
    /\ rpc' = "stopped"
    /\ UNCHANGED <<last_teams_seen, last_detected, rec_time, last_poll, spawned>>
    /\ UNCHANGED nonRecorder

\* KeyboardInterrupt inside start_recording, after Popen made the process
\* and before self.recording_process holds it: stop_recording finds no
\* process to stop, and the loop ends.
InterruptInStart(t) ==
    /\ rpc = "loop"
    /\ ~is_recording
    /\ t >= rec_time + poll_interval
    /\ t <= MaxPollTime
    /\ rec_time' = t
    /\ last_poll' = [result |-> "detected", current_time |-> t]
    /\ last_teams_seen' = t
    /\ last_detected' = t
    /\ spawned' = spawned + 1
    /\ live' = live \cup {spawned + 1}
    /\ recording_process' = 0
    /\ is_recording' = FALSE
    /\ rpc' = "stopped"
    /\ UNCHANGED nonRecorder

\* Environment: the ffmpeg process ends on its own.
ProcessExits ==
    /\ \E p \in live : live' = live \ {p}
    /\ UNCHANGED <<recording_process, is_recording, last_teams_seen,
                   last_detected, rec_time, last_poll, spawned, rpc>>
    /\ UNCHANGED nonRecorder

\* TeamsRecorder.__init__
RecorderIdle ==
    /\ recording_process = 0
    /\ is_recording = FALSE
    /\ last_teams_seen = 0
    /\ last_detected = 0
    /\ rec_time = 0
    /\ last_poll = NoPoll
    /\ live = {}
    /\ spawned = 0
    /\ rpc = "loop"

RecorderInit == RecorderIdle

RecorderNext ==
    \/ \E teams_active \in BOOLEAN : \E t \in 1..MaxPollTime :
          \E popen \in {"ok", "OSError", "FileNotFoundError"} :
             Poll(teams_active, t, popen)
    \/ \E t \in 1..MaxPollTime : \E err \in {"OSError", "FileNotFoundError"} :
          DetectRaises(t, err)
    \/ KeyboardInterrupt
    \/ \E t \in 1..MaxPollTime : InterruptInStart(t)
    \/ ProcessExits

(***************************************************************************)
(* HybridStateDetector.get_stream_state on one stream: the call of the     *)
(* browser detector it makes, then what it does with the result.           *)
(***************************************************************************)
HybridIdle == hybrid = [pc |-> "idle", ret |-> "none", local |-> FALSE]

\* get_stream_state is entered; the browser detector is about to be called.
HybridEnter ==
    /\ hybrid.pc # "remote"
    /\ call.pc # "waiting"
    /\ hybrid' = [pc |-> "remote", ret |-> "none", local |-> FALSE]
    /\ call' = NoCall
    /\ UNCHANGED <<chrome_connected, tabs, batches, endpoint>>
    /\ UNCHANGED <<lvars, mvars, xvars>>

\* browser_state = self.browser_detector.get_stream_state(stream)
HybridRemote(r) ==
    /\ hybrid.pc = "remote"
    /\ call.pc = "idle"
    /\ r.op = "get_stream_state"
    /\ r.volume = stream.volume

\* The browser detector's call is over: its exception goes up to the
\* caller; its value is returned unless it is 'UNKNOWN'.
HybridReturn ==
    /\ hybrid.pc = "remote"
    /\ call.pc \in {"returned", "raised"}
    /\ hybrid' = IF call.pc = "raised"
                 THEN [pc |-> "raised", ret |-> "raised", local |-> FALSE]
                 ELSE IF call.ret # "UNKNOWN"
                 THEN [pc |-> "returned", ret |-> call.ret, local |-> FALSE]
                 ELSE [pc |-> "returned", ret |-> PulseState(stream, now),
                       local |-> TRUE]
    /\ UNCHANGED <<bvars, lvars, mvars, xvars>>

\* The streams the hybrid strategy is asked about.
HybridStreams ==
    {[corked |-> c, muted |-> FALSE, volume |-> v, state |-> "RUNNING",
      last_activity |-> 1] : c \in BOOLEAN, v \in Volumes}

HybridInit ==
    /\ BrowserInit
    /\ HybridIdle
    /\ stream \in HybridStreams
    /\ now = 1
    /\ lret = "none"

HybridNext ==
    \/ HybridEnter
    \/ \E r \in Requests : HybridRemote(r) /\ CallDiscoveryFails(r)
    \/ \E r \in Requests : HybridRemote(r) /\ CallDiscoveryMalformed(r)
    \/ \E r \in Requests : HybridRemote(r) /\ CallQuerySync(r)
    \/ \E r \in Requests : HybridRemote(r) /\ CallQueryInLoop(r)
    \/ CallSyncReturn
    \/ GatherDone
    \/ \E k \in DOMAIN batches : \E i \in DOMAIN tabs : QueryConnect(k, i)
    \/ \E k \in DOMAIN batches : \E i \in DOMAIN tabs : QuerySend(k, i)
    \/ \E k \in DOMAIN batches : \E i \in DOMAIN tabs : QueryRecv(k, i)
    \/ HybridReturn

BrowserIdle ==
    /\ chrome_connected = FALSE
    /\ tabs = <<>>
    /\ batches = <<>>
    /\ call = NoCall
    /\ endpoint = "up"

LocalIdle ==
    /\ stream = [corked |-> FALSE, muted |-> FALSE, volume |-> Vol0,
                 state |-> "IDLE", last_activity |-> 0]
    /\ now = 1
    /\ lret = "none"

vars == <<bvars, lvars, mvars, hvars, xvars>>

MergeIdle ==
    /\ pactl_out = [exit |-> 0, stdout |-> <<>>]
    /\ sinks_out = [exit |-> 0, stdout |-> <<>>]
    /\ wpctl_out = [exit |-> 0, stdout |-> <<>>]
    /\ wpctl_streams = <<>>
    /\ pactl_streams = <<>>
    /\ merged = <<>>
    /\ mpc = "start"
    /\ detector_type = "pulse"
    /\ refreshed = 0

ExtraIdle == SinkIdle /\ BufferIdle /\ RecorderIdle

InitBrowser == BrowserInit /\ LocalIdle /\ MergeIdle /\ HybridIdle /\ ExtraIdle
InitAggregate == AggregateInit /\ LocalIdle /\ MergeIdle /\ HybridIdle /\ ExtraIdle
InitLocal == LocalInit /\ BrowserIdle /\ MergeIdle /\ HybridIdle /\ ExtraIdle
InitMerge == MergeInit /\ BrowserIdle /\ LocalIdle /\ HybridIdle /\ ExtraIdle
InitDerive == DeriveInit /\ LocalIdle /\ MergeIdle /\ HybridIdle /\ ExtraIdle
InitHybrid == HybridInit /\ MergeIdle /\ ExtraIdle
InitRefresh == RefreshInit /\ BrowserIdle /\ LocalIdle /\ HybridIdle /\ ExtraIdle

InitRouting == RoutingInit /\ BrowserIdle /\ LocalIdle /\ HybridIdle /\ ExtraIdle
InitLive == LiveInit /\ LocalIdle /\ MergeIdle /\ HybridIdle /\ ExtraIdle
InitSinks == SinkInit /\ BrowserIdle /\ LocalIdle /\ MergeIdle /\ HybridIdle /\ BufferIdle
                 /\ RecorderIdle
InitBuffer == BufferInit /\ BrowserIdle /\ LocalIdle /\ MergeIdle /\ HybridIdle /\ SinkIdle
                  /\ RecorderIdle
InitRecorder == RecorderInit /\ BrowserIdle /\ LocalIdle /\ MergeIdle /\ HybridIdle
                    /\ SinkIdle /\ BufferIdle

SpecBrowser == InitBrowser /\ [][BrowserNext]_vars
SpecAggregate == InitAggregate /\ [][AggregateNext]_vars
SpecLocal == InitLocal /\ [][LocalNext]_vars
SpecRefresh == InitRefresh /\ [][RefreshNext]_vars
SpecMerge == InitMerge /\ [][MergeNext]_vars
SpecDerive == InitDerive /\ [][DeriveNext]_vars
SpecHybrid == InitHybrid /\ [][HybridNext]_vars
SpecSinks == InitSinks /\ [][SinkNext]_vars
SpecBuffer == InitBuffer /\ [][BufferNext]_vars
SpecRecorder == InitRecorder /\ [][RecorderNext]_vars
SpecLive == InitLive /\ [][LiveNext]_vars /\ WF_vars(LoopStep)
SpecRouting == InitRouting /\ [][RoutingNext]_vars

(***************************************************************************)
(* Steps of the browser strategy that the properties below speak about.    *)
(***************************************************************************)
\* Tab i's query in batch k takes its except branch in this step.
FailStep(k, i) ==
    /\ Len(batches') = Len(batches)
    /\ batches[k].q[i] \notin Finished
    /\ batches'[k].q[i] = "failed"

\* Tab i's query in batch k records a reply in this step.
RecordStep(k, i) ==
    /\ Len(batches') = Len(batches)
    /\ batches[k].q[i] \notin Finished
    /\ batches'[k].q[i] = "done"

\* A gather is done in this step.
FanInStep == Len(batches') < Len(batches)

\* A call enters in this step (and, unless it blocks in
\* run_until_complete, returns or raises in it as well).
EnterStep == call.pc # "waiting" /\ call' # call

\* A call that scheduled its queries without awaiting them returns.
ReturnInLoopStep ==
    /\ call.pc # "waiting"
    /\ call'.pc = "returned"
    /\ Len(batches') = Len(batches) + 1

\* A call returns in this step.
ReturnStep ==
    \/ call.pc = "waiting" /\ call'.pc = "returned"
    \/ ReturnInLoopStep
    \/ EnterStep /\ call'.pc = "returned"

PastConnection(c) == c.discovery \in {"skipped", "ok"}

(***************************************************************************)
(* C1. A failure (exception or timeout) of one tab's query writes "error"  *)
(* to that tab's audio_state and nothing else: every other tab and every   *)
(* other query of the loop is left as it was (none is cancelled); a query  *)
(* that gets its reply records the state derived from its own elements on  *)
(* its own tab only; and a gather ends only when all of its queries have   *)
(* ended, without making any call raise.                                   *)
(***************************************************************************)
C1_QueryFailureIsolated ==
    [][/\ \A k \in DOMAIN batches : \A i \in DOMAIN tabs :
            FailStep(k, i) =>
                /\ tabs' = [tabs EXCEPT ![i].audio_state = "error"]
                /\ batches' = [batches EXCEPT ![k].q[i] = "failed"]
                /\ call' = call
       /\ \A k \in DOMAIN batches : \A i \in DOMAIN tabs :
            RecordStep(k, i) =>
                /\ \A j \in DOMAIN tabs : j # i => tabs'[j] = tabs[j]
                /\ tabs'[i].audio_state =
                       DeriveAudio(tabs'[i].media_elements).audio_state
                /\ batches' = [batches EXCEPT ![k].q[i] = "done"]
       /\ FanInStep =>
            /\ \E k \in DOMAIN batches :
                  BatchDone(batches[k]) /\ batches' = Removed(batches, k)
            /\ tabs' = tabs
            /\ call'.pc # "raised"
      ]_vars

\* One gather in which a query failed and a sibling recorded its reply.
C1_Witness ==
    \E k \in DOMAIN batches : \E i, j \in DOMAIN tabs :
        /\ BatchDone(batches[k])
        /\ batches[k].q[i] = "failed"
        /\ tabs[i].audio_state = "error"
        /\ batches[k].q[j] = "done"
        /\ tabs[j].audio_state = "playing"

(***************************************************************************)
(* C7. A get_stream_state call made while the DevTools endpoint is         *)
(* unreachable returns RUNNING if the stream's volume is not "0%" and IDLE *)
(* otherwise, also after an earlier call has reached the endpoint.         *)
(***************************************************************************)
C7_UnreachableFallsBack ==
    (call.op = "get_stream_state" /\ call.pc = "returned" /\ call.env = "down")
        => call.ret = (IF call.volume # Vol0 THEN "RUNNING" ELSE "IDLE")

(***************************************************************************)
(* C8. A get_stream_state call that is past the connection check returns   *)
(* only after the gather it started for the tabs has ended, with or        *)
(* without a running event loop in the caller.                             *)
(***************************************************************************)
C8_AnswersFromOwnQuery ==
    [][(ReturnStep /\ call'.op = "get_stream_state" /\ PastConnection(call')) =>
          \/ /\ call.pc = "waiting"
             /\ \E k \in DOMAIN batches :
                   BatchDone(batches[k]) /\ batches' = Removed(batches, k)
          \/ /\ ReturnInLoopStep
             /\ BatchDone(batches'[Len(batches')])
      ]_vars

(***************************************************************************)
(* C9. A call performs tab discovery exactly when the client is not        *)
(* connected as it enters; a discovery that fails leaves the client not    *)
(* connected (so the next call discovers again) and makes list_tabs        *)
(* return the empty list without raising.                                  *)
(***************************************************************************)
C9_DiscoveryWhenNotConnected ==
    [][EnterStep =>
          /\ (call'.discovery = "skipped") <=> chrome_connected
          /\ call'.discovery \in {"unreachable", "invalid", "malformed"} =>
                /\ ~chrome_connected'
                /\ call'.op = "list_tabs" =>
                      call'.pc = "returned" /\ call'.ret = "empty"
      ]_vars

(***************************************************************************)
(* C10. When the client holds N page tabs of which exactly one has a       *)
(* websocket URL that refuses the connection and the others answer,        *)
(* list_tabs(with_audio_state=True) returns the N tabs, exactly one with   *)
(* audio_state "error" and each other with the state derived from its own  *)
(* reply, and does not raise.                                              *)
(***************************************************************************)
OneUnreachableTab(ts) ==
    /\ Len(ts) >= 2
    /\ \E i \in DOMAIN ts :
          /\ ts[i].tab_type = "page" /\ ts[i].ws_url = "ws://refused"
          /\ \A j \in DOMAIN ts \ {i} :
                ts[j].tab_type = "page" /\ ts[j].ws_url = "ws://ok"

C10_OneUnreachableTab ==
    [][(/\ ReturnStep
        /\ call'.op = "list_tabs" /\ call'.with_audio_state
        /\ PastConnection(call') /\ call'.env = "up"
        /\ OneUnreachableTab(tabs')) =>
          /\ call'.ret = "tabs"
          /\ Len(PageTabStates(tabs')) = Len(tabs')
          /\ \A i \in DOMAIN tabs' :
                IF tabs'[i].ws_url = "ws://refused"
                THEN tabs'[i].audio_state = "error"
                ELSE /\ tabs'[i].audio_state \in {"silent", "playing", "muted", "paused"}
                     /\ tabs'[i].audio_state =
                            DeriveAudio(tabs'[i].media_elements).audio_state
      ]_vars

(***************************************************************************)
(* C2. A get_stream_state call that is past the connection check returns   *)
(* the best signal over all tabs: RUNNING if a tab is playing, else MUTED  *)
(* if a tab is muted, else CORKED if a tab is paused, else IDLE.           *)
(***************************************************************************)
Some(ts, audio_state) == \E i \in DOMAIN ts : ts[i].audio_state = audio_state

C2_BestSignal ==
    (call.op = "get_stream_state" /\ call.pc = "returned" /\ PastConnection(call))
        => call.ret = (IF Some(tabs, "playing") THEN "RUNNING"
                       ELSE IF Some(tabs, "muted") THEN "MUTED"
                       ELSE IF Some(tabs, "paused") THEN "CORKED"
                       ELSE "IDLE")

\* Three paused tabs give CORKED.
C2_Witness ==
    /\ call.op = "get_stream_state" /\ call.pc = "returned"
    /\ Len(tabs) = 3
    /\ \A i \in DOMAIN tabs : tabs[i].audio_state = "paused"
    /\ call.ret = "CORKED"

(***************************************************************************)
(* C3. The local strategy's get_stream_state returns CORKED for a corked   *)
(* stream; else MUTED for a muted one; else IDLE if last_activity > 0 and  *)
(* now - last_activity > idle_timeout; else IDLE if the digits of the      *)
(* volume are all zeros; else RUNNING.                                     *)
(***************************************************************************)
ZeroVolume(v) ==
    /\ \E i \in DOMAIN v : IsDigit(v[i])
    /\ \A i \in DOMAIN v : IsDigit(v[i]) => v[i] = "0"

C3_LocalPrecedence ==
    lret # "none" =>
        lret = (IF stream.corked THEN "CORKED"
                ELSE IF stream.muted THEN "MUTED"
                ELSE IF stream.last_activity > 0
                        /\ now - stream.last_activity > IdleTimeout THEN "IDLE"
                ELSE IF ZeroVolume(IF stream.volume = <<>> THEN Vol0 ELSE stream.volume)
                     THEN "IDLE"
                ELSE "RUNNING")

\* Volume "55%", neither corked nor muted, last active idle_timeout + 1
\* seconds ago: IDLE.
C3_Witness ==
    /\ lret = "IDLE"
    /\ ~stream.corked /\ ~stream.muted /\ stream.volume = Vol55
    /\ stream.last_activity = now - (IdleTimeout + 1)

(***************************************************************************)
(* Properties of the merge.                                                *)
(***************************************************************************)
\* The mixer record has a routing record of its id.
Routed(rec) == \E j \in DOMAIN wpctl_streams : wpctl_streams[j]["id"] = rec["id"]

\* C4: merge chooses the initial state of each stream by precedence: the
\* state of a routing record of the same id if there is one; otherwise
\* CORKED if the record the mixer parser produced is corked; otherwise
\* MUTED if that record is muted.  A record parsed from 'Mute: yes',
\* 'Corked: no' with no routing record gets MUTED.
C4_MergePrecedence ==
    mpc = "merged" =>
        \A i \in DOMAIN merged :
            LET rec == pactl_streams[i]
            IN  IF Routed(rec)
                THEN \E j \in DOMAIN wpctl_streams :
                        /\ wpctl_streams[j]["id"] = rec["id"]
                        /\ merged[i].state = wpctl_streams[j]["state"]
                ELSE IF Get(rec, "corked", FALSE)
                THEN merged[i].state = "CORKED"
                ELSE Get(rec, "muted", FALSE) => merged[i].state = "MUTED"

\* C5: for a mixer record with no routing record that is neither corked
\* nor muted, merge gives IDLE exactly when the volume is "0%" and RUNNING
\* for every other volume.
C5_IdleOnlyAtZeroVolume ==
    mpc = "merged" =>
        \A i \in DOMAIN merged :
            LET rec == pactl_streams[i]
            IN  (/\ ~Routed(rec)
                 /\ ~Get(rec, "corked", FALSE)
                 /\ ~Get(rec, "muted", FALSE))
                    => merged[i].state =
                           IF merged[i].volume = Vol0 THEN "IDLE" ELSE "RUNNING"

\* C6: merge returns exactly one AudioStream per mixer record, in the
\* order of the mixer records and with their ids, whatever the routing
\* records are; a routing record whose id no mixer record has gives no
\* AudioStream.
C6_OneStreamPerMixerRecord ==
    mpc = "merged" =>
        /\ Len(merged) = Len(pactl_streams)
        /\ \A i \in DOMAIN merged : merged[i].id = pactl_streams[i]["id"]

\* Two mixer records of different ids were merged with routing records
\* that repeat an id and carry an id no mixer record has.
C6_Witness ==
    /\ mpc = "merged"
    /\ Len(merged) >= 2
    /\ merged[1].id # merged[2].id
    /\ \E j, k \in DOMAIN wpctl_streams :
          j # k /\ wpctl_streams[j]["id"] = wpctl_streams[k]["id"]
    /\ \E j \in DOMAIN wpctl_streams :
          \A i \in DOMAIN pactl_streams :
              pactl_streams[i]["id"] # wpctl_streams[j]["id"]

(***************************************************************************)
(* C11. After a successful query the tab's audio_state is: silent if the   *)
(* page has no elements; otherwise playing if some element is not paused   *)
(* and not every element is muted; muted if some element is not paused and *)
(* every element is muted; paused if every element is paused.              *)
(***************************************************************************)
C11_DerivedFromElements ==
    \A t \in DOMAIN tabs :
        LET e == tabs[t].media_elements
            somePlays == \E i \in DOMAIN e : ~e[i].paused
            allMuted == \A i \in DOMAIN e : e[i].muted
            allPaused == \A i \in DOMAIN e : e[i].paused
        IN  tabs[t].audio_state # "unknown" =>
                /\ e = <<>> => tabs[t].audio_state = "silent"
                /\ (e # <<>> /\ somePlays /\ ~allMuted) =>
                        tabs[t].audio_state = "playing"
                /\ (e # <<>> /\ somePlays /\ allMuted) =>
                        tabs[t].audio_state = "muted"
                /\ (e # <<>> /\ allPaused) => tabs[t].audio_state = "paused"

\* A page whose only playing element is muted while a paused one is not.
C11_Witness ==
    \E t \in DOMAIN tabs :
        /\ tabs[t].media_elements =
               <<[paused |-> FALSE, muted |-> TRUE], [paused |-> TRUE, muted |-> FALSE]>>
        /\ tabs[t].audio_state = "playing"

(***************************************************************************)
(* C12. Whenever the remote strategy returns a value, the hybrid           *)
(* strategy's get_stream_state returns exactly that value and does not     *)
(* consult the local strategy.                                             *)
(***************************************************************************)
HybridOver == hybrid.pc \in {"returned", "raised"}

C12_HybridDefersToRemote ==
    (HybridOver /\ call.pc = "returned") =>
        /\ hybrid.pc = "returned"
        /\ hybrid.ret = call.ret
        /\ ~hybrid.local

\* The remote strategy said IDLE for a tab list it queried where the
\* local strategy says RUNNING, and the hybrid strategy returned IDLE.
C12_Witness ==
    /\ hybrid.pc = "returned"
    /\ PastConnection(call)
    /\ hybrid.ret = "IDLE"
    /\ PulseState(stream, now) = "RUNNING"

(***************************************************************************)
(* C13. When the remote strategy raises during the hybrid strategy's       *)
(* get_stream_state, the hybrid strategy returns the local strategy's      *)
(* state for the stream and does not raise.                                *)
(***************************************************************************)
C13_HybridFallsBackOnException ==
    (HybridOver /\ call.pc = "raised") =>
        /\ hybrid.pc = "returned"
        /\ hybrid.ret = PulseState(stream, now)

(***************************************************************************)
(* Properties of the mixer parser.                                         *)
(***************************************************************************)
IsHeaderLine(l) == StartsWith(Strip(l), SinkInputHeader)

HeaderNumber(l) == Split(Strip(l), <<"#">>)[2]

HasBadHeader(lines) ==
    \E i \in DOMAIN lines :
        IsHeaderLine(lines[i]) /\ ~IsInt(HeaderNumber(lines[i]))

\* The ids of the record headers of a listing, in order.
HeaderIds(lines) ==
    LET headers == SelectSeq(lines, IsHeaderLine)
    IN  [i \in DOMAIN headers |-> ParseInt(HeaderNumber(headers[i]))]

\* list_sink_inputs_pactl has run on a listing pactl printed with exit 0.
Listed == mpc # "start" /\ pactl_out.exit = 0

\* C14: when a record header carries a non-integer id the mixer listing
\* operation gives its caller the empty list: it does not raise and does
\* not return the records parsed before the bad header.
C14_BadIdGivesEmptyList ==
    (Listed /\ HasBadHeader(pactl_out.stdout)) =>
        /\ mpc \in {"listed", "merged"}
        /\ pactl_streams = <<>>

\* C15: apart from a non-integer id no line aborts the scan: a line that
\* is not recognized or whose value is malformed (application.name or
\* media.name without double quotes) is skipped and the record of every
\* header is still returned.
C15_MalformedLineSkipped ==
    (Listed /\ ~HasBadHeader(pactl_out.stdout)) =>
        /\ mpc \notin {"ValueError", "IndexError"}
        /\ LET withId == SelectSeq(pactl_streams, LAMBDA rec : "id" \in DOMAIN rec)
           IN  [i \in DOMAIN withId |-> withId[i]["id"]]
                   = HeaderIds(pactl_out.stdout)

\* C16: whenever the mixer parser returns, it returns exactly one record
\* per header line, in header order, each with its header's id; also when
\* property lines come before the first header, and no record when there
\* is no header.
C16_OneRecordPerHeader ==
    (Listed /\ mpc \in {"listed", "merged", "KeyError"}) =>
        /\ Len(pactl_streams) = Len(HeaderIds(pactl_out.stdout))
        /\ \A i \in DOMAIN pactl_streams :
              /\ "id" \in DOMAIN pactl_streams[i]
              /\ pactl_streams[i]["id"] = HeaderIds(pactl_out.stdout)[i]

(***************************************************************************)
(* Properties of parsing followed by merge, for one mixer block.           *)
(***************************************************************************)
\* The block has a line of this prefix.
Has(lines, prefix) == \E i \in DOMAIN lines : StartsWith(Strip(lines[i]), prefix)

\* The text that follows the prefix on the block's line of this prefix.
After(lines, prefix) ==
    LET l == Strip(lines[CHOOSE i \in DOMAIN lines :
                             StartsWith(Strip(lines[i]), prefix)])
    IN  SubSeq(l, Len(prefix) + 1, Len(l))

\* The text between a pair of double quotes around it.
Unquoted(text) == SubSeq(text, 2, Len(text) - 1)

\* The text up to and including the first '%'.
UpToPercent(text) ==
    SubSeq(text, 1, CHOOSE k \in DOMAIN text :
                       text[k] = "%" /\ \A j \in 1..(k - 1) : text[j] # "%")

\* C17: for one mixer block, parsing followed by merge recovers
\* application, media, sink, corked, muted and volume exactly from the
\* lines that are present, the volume being the text after 'Volume: ' up
\* to and including the first '%'; with a line absent, application and
\* media are "Unknown" and volume is "0%", the other fields unaffected.
C17_FieldsRecovered ==
    (mpc = "merged" /\ Len(merged) = 1 /\ Len(HeaderIds(pactl_out.stdout)) = 1) =>
        LET b == pactl_out.stdout
            s == merged[1]
        IN  /\ s.application = IF Has(b, ApplicationPrefix)
                               THEN Unquoted(After(b, ApplicationPrefix))
                               ELSE Unknown
            /\ s.media = IF Has(b, MediaPrefix)
                         THEN Unquoted(After(b, MediaPrefix))
                         ELSE Unknown
            /\ Has(b, SinkPrefix) => s.sink = After(b, SinkPrefix)
            /\ Has(b, CorkedPrefix) => s.corked = (After(b, CorkedPrefix) = Yes)
            /\ Has(b, MutePrefix) => s.muted = (After(b, MutePrefix) = Yes)
            /\ s.volume = IF Has(b, VolumePrefix)
                                /\ Contains(After(b, VolumePrefix), <<"%">>)
                          THEN UpToPercent(After(b, VolumePrefix))
                          ELSE Vol0

(***************************************************************************)
(* Properties of one whole poll.                                           *)
(***************************************************************************)
\* The poll has got past list_sink_inputs_pactl, which returned.
PastListing == mpc \notin {"start", "ValueError", "IndexError"}

\* The poll has got past list_streams_wpctl, which returned.
PastRouting == PastListing /\ mpc \notin {"listed", "wpctl ValueError",
                                          "CalledProcessError"}

\* The poll ended with an exception going up to the caller.
PollRaised ==
    mpc \in {"ValueError", "IndexError", "wpctl ValueError", "KeyError",
             "CalledProcessError", "detector ValueError", "raised"}

\* C18: a nonzero exit of a tool call of one poll is never raised to the
\* caller of list_audio_streams: a failed mixer listing gives an empty
\* list of mixer records, a failed routing dump an empty list of routing
\* records, a failed sink listing a sink name all the same; and a poll
\* with no mixer records does not raise and returns an empty list.
C18_ToolFailureDegrades ==
    /\ mpc # "CalledProcessError"
    /\ (mpc # "start" /\ pactl_out.exit # 0) =>
            PastListing /\ pactl_streams = <<>>
    /\ (PastListing /\ mpc # "listed" /\ wpctl_out.exit # 0) =>
            PastRouting /\ wpctl_streams = <<>>
    /\ (mpc = "merged" /\ sinks_out.exit # 0) =>
            \A i \in DOMAIN merged :
                IsDigitText(merged[i].sink) =>
                    merged[i].sink_name = AlsaOutput \o merged[i].sink
    /\ (PastListing /\ pactl_streams = <<>>) =>
            /\ ~PollRaised
            /\ merged = <<>>
            /\ mpc # "refreshing"

\* A poll in which both the mixer listing and the routing dump exited
\* nonzero has returned the empty list.
C18_Witness ==
    /\ mpc = "done"
    /\ pactl_out.exit # 0
    /\ wpctl_out.exit # 0
    /\ merged = <<>>

(***************************************************************************)
(* Properties of the sink name.                                            *)
(***************************************************************************)
\* The lines of the listing that are the header of sink number `sink`.
SinkHeaders(lines, sink) == {h \in DOMAIN lines : lines[h] = SinkHeader \o sink}

\* The Name lines under the header of sink number `sink`: after it, with
\* no header of any sink in between.
NamesUnder(lines, sink) ==
    {n \in DOMAIN lines :
        /\ StartsWith(lines[n], SinkNamePrefix)
        /\ \E h \in SinkHeaders(lines, sink) :
              /\ h < n
              /\ \A j \in (h + 1)..(n - 1) : ~StartsWith(lines[j], SinkHeader)}

\* C19: merge resolves a purely numeric sink k to the Name listed under
\* the header of sink k itself, whatever the order of the sinks in the
\* listing; to a synthetic name when the listing fails or has no sink k;
\* and takes a sink that is not numeric as the sink name.
C19_SinkNameResolved ==
    mpc = "merged" =>
        \A i \in DOMAIN merged :
            LET s == merged[i]
                lines == sinks_out.stdout
                names == NamesUnder(lines, s.sink)
                first == CHOOSE n \in names : \A m \in names : n <= m
            IN  IF ~IsDigitText(s.sink) THEN s.sink_name = s.sink
                ELSE IF sinks_out.exit # 0
                THEN s.sink_name = AlsaOutput \o s.sink
                ELSE IF names = {}
                THEN s.sink_name = UnknownSinkName \o s.sink
                ELSE s.sink_name
                         = SubSeq(lines[first], Len(SinkNamePrefix) + 1,
                                  Len(lines[first]))

(***************************************************************************)
(* Properties of the refreshed streams.                                    *)
(***************************************************************************)
\* The fields of an AudioStream other than state and last_activity.
FixedFields ==
    {"id", "application", "media", "sink", "sink_name", "monitor", "volume",
     "is_teams", "is_browser", "corked", "muted"}

\* A step of the refresh loop leaves the fixed fields of every stream as
\* they were.
RefreshStep ==
    mpc = "refreshing" =>
        /\ Len(merged') = Len(merged)
        /\ \A i \in DOMAIN merged : \A f \in FixedFields :
              merged'[i][f] = merged[i][f]

\* C20: every AudioStream has monitor = sink_name + ".monitor" in every
\* state, from the merge that creates it through the update_state calls
\* of the local, the remote and the hybrid strategy; a refresh changes
\* only state and last_activity.
C20_MonitorOfSinkName ==
    /\ [](\A i \in DOMAIN merged :
              merged[i].monitor = merged[i].sink_name \o MonitorSuffix)
    /\ [][RefreshStep]_vars

\* The hybrid strategy has refreshed every stream of a poll, among them
\* one of a resolved sink name, which it found MUTED.
C20_Witness ==
    /\ mpc = "done"
    /\ detector_type = "hybrid"
    /\ \E i \in DOMAIN merged :
          /\ merged[i].sink_name # merged[i].sink
          /\ merged[i].state = "MUTED"
          /\ merged[i].monitor = merged[i].sink_name \o MonitorSuffix

(***************************************************************************)
(* Properties of the classification.                                       *)
(***************************************************************************)
\* Some keyword of the list is, letter case aside, part of the text.
Mentions(text, keywords) == \E k \in keywords : Contains(Lower(text), k)

\* C21: merge sets is_teams (is_browser) exactly when a Teams (browser)
\* keyword is, letter case aside, part of the record's application or of
\* its media name; so a stream whose media name holds 'firefox' is a
\* browser stream whatever its application.
C21_ClassifiedByApplicationOrMedia ==
    mpc = "merged" =>
        \A i \in DOMAIN merged :
            LET app == Get(pactl_streams[i], "application", <<>>)
                media == Get(pactl_streams[i], "media", <<>>)
            IN  /\ merged[i].is_teams
                      = (Mentions(app, TeamsKeywords) \/ Mentions(media, TeamsKeywords))
                /\ merged[i].is_browser
                      = (Mentions(app, BrowserNames) \/ Mentions(media, BrowserNames))

(***************************************************************************)
(* Properties of create_virtual_sink.                                      *)
(***************************************************************************)
\* The server's sinks of this name.
Named(name) == {i \in DOMAIN server_sinks : server_sinks[i] = name}

\* C22: after a create_virtual_sink(name) that reported success, on any
\* prior set of sinks, exactly one sink named name exists; and the call
\* loads nothing when a sink of this name was there already.
C22_CreateIsIdempotent ==
    /\ [](cvs.ret => Cardinality(Named(cvs.name)) = 1)
    /\ [][\A name \in SinkNames :
            (Named(name) # {} /\ cvs'.name = name) => server_sinks' = server_sinks]_vars

(***************************************************************************)
(* Properties of the routing-graph parser.                                 *)
(***************************************************************************)
IsMarkerLine(line) == Contains(line, StreamsMarker)

\* A line that is not blank and not indented.
Unindented(line) ==
    /\ \E k \in DOMAIN line : line[k] \notin Whitespace
    /\ line[1] \notin {" ", "\t"}

\* Line i of the dump is inside the Streams section: a marker line comes
\* before it and no unindented line from there up to line i itself.
InSection(lines, i) ==
    /\ ~IsMarkerLine(lines[i])
    /\ \E m \in 1..(i - 1) :
          /\ IsMarkerLine(lines[m])
          /\ \A j \in (m + 1)..i :
                IsMarkerLine(lines[j]) \/ ~Unindented(lines[j])

\* The number of a line '<int>. <name>', or -1 for any other line.
EntryNumber(line) ==
    LET text == LStrip(line)
        dots == {k \in DOMAIN text : text[k] = "."}
        dot == CHOOSE k \in dots : \A j \in dots : k <= j
    IN  IF /\ dots # {}
           /\ dot > 1
           /\ \A j \in 1..(dot - 1) : IsDigit(text[j])
           /\ Len(text) > dot + 1
           /\ text[dot + 1] = " "
        THEN ParseInt(SubSeq(text, 1, dot - 1))
        ELSE -1

\* The numbers of the '<int>. <name>' lines inside the section, in order.
RECURSIVE SectionEntries(_, _)
SectionEntries(lines, i) ==
    IF i > Len(lines) THEN <<>>
    ELSE (IF InSection(lines, i) /\ EntryNumber(lines[i]) >= 0
          THEN <<EntryNumber(lines[i])>> ELSE <<>>)
             \o SectionEntries(lines, i + 1)

\* C23: the routing-graph parser, when it returns, returns the
\* '<int>. <name>' lines that are inside the Streams section, in order,
\* and no other: the marker line opens the section, the first unindented,
\* non-blank line after it closes it, numbered lines before the marker
\* or after the close are not captured; every entry has state RUNNING.
C23_OnlyInsideStreamsSection ==
    (wpctl_out.exit = 0 /\ mpc \notin {"listed", "wpctl ValueError"}) =>
        /\ [i \in DOMAIN wpctl_streams |-> wpctl_streams[i]["id"]]
              = SectionEntries(wpctl_out.stdout, 1)
        /\ \A i \in DOMAIN wpctl_streams : wpctl_streams[i]["state"] = "RUNNING"

\* A dump with a numbered line before the marker, one inside the section
\* and one after its close, of which the parser returned the one inside.
C23_Witness ==
    /\ mpc = "routed"
    /\ LET lines == wpctl_out.stdout
       IN  /\ Len(lines) = 5
           /\ EntryNumber(lines[1]) = 42
           /\ IsMarkerLine(lines[2])
           /\ EntryNumber(lines[3]) = 103
           /\ Unindented(lines[4])
           /\ EntryNumber(lines[5]) = 42
    /\ Len(wpctl_streams) = 1
    /\ wpctl_streams[1]["id"] = 103

(***************************************************************************)
(* Properties of a blocking call.                                          *)
(***************************************************************************)
\* A page tab that was queried and does not answer the evaluation.
Unresponsive(t) ==
    t.tab_type = "page" /\ t.ws_url \notin {"", "ws://ok"}

FirstSamples == [i \in 1..chunk_samples |-> first_sample + i - 1]

\* Consumer c's get_next_chunk returns in this step.
Returns(c) == consumers'[c] # consumers[c] /\ consumers'[c].pc = "returned"

\* C25: on a buffer that has made no chunk yet, as soon as the samples
\* added amount to chunk_samples a chunk is made, and the next
\* get_next_chunk to return returns a pair, not None, whose chunk is the
\* first chunk_samples samples that were added, in order.
C25_FirstChunkReturned ==
    /\ [](next_sample - first_sample >= chunk_samples => produced >= 1)
    /\ [][\A c \in Consumers :
            (Returns(c) /\ produced >= 1 /\ handed = <<>>) =>
                /\ consumers'[c].ret.kind = "pair"
                /\ consumers'[c].ret.chunk = FirstSamples]_vars

\* C25 as amended: the same, for a get_next_chunk that returns before
\* more than max_chunks chunks have been made.
C25_FirstChunkKept ==
    /\ [](next_sample - first_sample >= chunk_samples => produced >= 1)
    /\ [][\A c \in Consumers :
            (Returns(c) /\ produced >= 1 /\ produced <= max_chunks
                 /\ handed = <<>>) =>
                /\ consumers'[c].ret.kind = "pair"
                /\ consumers'[c].ret.chunk = FirstSamples]_vars

\* After a clear, samples were added in two calls and the first
\* get_next_chunk since then has returned the chunk of the first of them.
C25_Witness ==
    /\ first_sample > 1
    /\ produced = 1
    /\ Len(handed) = 1
    /\ handed[1].chunk = FirstSamples
    /\ next_sample - first_sample > chunk_samples

\* C28: get_next_chunk returns None only when its wait ended by timeout,
\* so never when it was called with timeout=None, whatever the other
\* threads do between a notification and the wake-up.
C28_NoneOnlyOnTimeout ==
    \A c \in Consumers :
        (consumers[c].pc = "returned" /\ consumers[c].ret.kind = "None") =>
            /\ consumers[c].woke = "timeout"
            /\ consumers[c].timeout # "None"

\* The queue of chunks with the queue of timestamps, pair by pair.
Queued ==
    [i \in 1..Len(audio_buffer) |->
        [chunk |-> audio_buffer[i], timestamp |-> timestamp_buffer[i]]]

\* The place of a pair among the pairs made, 0 if it was never made.
MadeAt(chunk, timestamp) ==
    IF \E k \in 1..Len(made) :
           made[k] = [chunk |-> chunk, timestamp |-> timestamp]
    THEN CHOOSE k \in 1..Len(made) :
           made[k] = [chunk |-> chunk, timestamp |-> timestamp]
    ELSE 0

\* C29: the chunk queue and the timestamp queue have the same length, at
\* most max_chunks, and the i-th timestamp is the one its chunk was made
\* with; no get_next_chunk pops an empty queue; chunks are handed out in
\* the order they were made, each to at most one caller.
C29_QueuesInStep ==
    /\ Len(audio_buffer) = Len(timestamp_buffer)
    /\ Len(audio_buffer) <= max_chunks
    /\ \A i \in 1..Len(audio_buffer) :
           /\ i <= Len(timestamp_buffer)
           /\ MadeAt(audio_buffer[i], timestamp_buffer[i]) =
                  Len(made) - Len(audio_buffer) + i
    /\ \A c \in Consumers : consumers[c].pc # "raised"
    /\ \A i \in 1..Len(handed) :
           MadeAt(handed[i].chunk, handed[i].timestamp) > 0
    /\ \A i, j \in 1..Len(handed) :
           i < j => MadeAt(handed[i].chunk, handed[i].timestamp) <
                        MadeAt(handed[j].chunk, handed[j].timestamp)

\* Both consumers were handed a chunk while another is queued, after the
\* queue had overflowed or been drained by a consumer that was notified.
C29_Witness ==
    /\ Len(handed) = 2
    /\ handed[1].to # handed[2].to
    /\ Len(audio_buffer) = 1
    /\ \E c \in Consumers : consumers[c].woke = "notify"

(***************************************************************************)
(* Properties of the local strategy over time.                             *)
(***************************************************************************)
\* The stream's volume is not the integer zero.
NonZeroVolume(st) ==
    LET digits == SelectSeq(st.volume, IsDigit)
    IN  digits = <<>> \/ ParseInt(digits) # 0

\* The stream is neither corked nor muted, has a non-zero volume, and its
\* last activity is set and older than idle_timeout.
IdleByTimeout ==
    /\ ~stream.corked
    /\ ~stream.muted
    /\ NonZeroVolume(stream)
    /\ stream.last_activity > 0
    /\ now - stream.last_activity > IdleTimeout

\* C26: under the local strategy, once a stream that is not corked, not
\* muted and of non-zero volume is idle by timeout, every later
\* update_stream_activity and update_state leaves last_activity alone and
\* finds the stream IDLE again: update_state stores IDLE, and the stream
\* stays idle by timeout.
C26_IdleByTimeoutAbsorbing ==
    [][IdleByTimeout =>
          /\ now' >= now
          /\ stream'.last_activity = stream.last_activity
          /\ PulseState(stream', now') = "IDLE"
          /\ IdleByTimeout'
          /\ LocalUpdateState => stream'.state = "IDLE"
          /\ stream'.state # stream.state => stream'.state = "IDLE"]_vars

\* A stream that was RUNNING when it was created at time 1 has been found
\* IDLE by update_state, after idle_timeout, and time has gone on.
C26_Witness ==
    /\ IdleByTimeout
    /\ stream.state = "IDLE"
    /\ stream.last_activity = 1
    /\ now = MaxTime

(***************************************************************************)
(* Properties of the tabs of a browser client over several queries.        *)
(***************************************************************************)
\* C27: after any sequence of audio queries on a browser client, those
\* that succeed and those that fail, a tab has has_audio exactly when its
\* audio_state is "playing" or "muted".
C27_HasAudioFollowsState ==
    \A i \in DOMAIN tabs :
        tabs[i].has_audio <=> tabs[i].audio_state \in {"playing", "muted"}

(***************************************************************************)
(* Properties of the TeamsRecorder loop.                                   *)
(***************************************************************************)
\* The step is a turn of the loop that ends with the loop still running.
LoopTurn == rec_time' # rec_time /\ rpc' = "loop"

\* A step that starts a recording process is a poll that detects Teams
\* audio while no recording is in progress and no process runs.
StartsOnlyOnDetection ==
    ~(live' \subseteq live) =>
        (/\ last_poll'.result = "detected"
         /\ last_poll'.current_time = rec_time'
         /\ rec_time' # rec_time
         /\ ~is_recording
         /\ live = {})

\* A turn of the loop that stops the recording is a poll without Teams
\* audio, more than grace_period after the last poll that detected it.
StopsOnlyAfterGrace ==
    (LoopTurn /\ is_recording /\ ~is_recording') =>
        (/\ last_poll'.result = "absent"
         /\ last_detected > 0
         /\ last_poll'.current_time - last_detected > grace_period)

\* A poll that detects Teams audio during a recording keeps the process.
ContinuesOnDetection ==
    (LoopTurn /\ is_recording /\ last_poll'.result = "detected") =>
        (/\ is_recording'
         /\ recording_process' = recording_process
         /\ live' = live)

\* C30: a recording process is started only by a poll that detects Teams
\* audio while no recording is in progress; the loop stops a recording in
\* progress only in a poll that does not detect Teams audio and reads a
\* time more than grace_period after the last poll that detected it; a
\* poll that detects Teams audio while a recording is in progress keeps
\* the same process; and at most one recording process exists at any
\* time.
C30_OneRecordingPerMeeting ==
    /\ [](Cardinality(live) <= 1)
    /\ [][StartsOnlyOnDetection /\ StopsOnlyAfterGrace
             /\ ContinuesOnDetection]_vars

\* A second recording runs: the first was stopped after the grace period,
\* having gone on through a poll without Teams audio inside it.
C30_Witness ==
    /\ is_recording
    /\ recording_process = 2
    /\ live = {2}
    /\ rpc = "loop"

====
